---- MODULE Spec2Model ----
(***************************************************************************)
(* TrueHear decryption CLI: the EncDec cipher utility (AES-256-CBC over    *)
(* hex payloads), the three batch loops (manual, JSON import, CSV import)  *)
(* and the interactive session around them.                                *)
(*                                                                         *)
(* Text is a sequence of one-character strings; bytes are 0..255.          *)
(***************************************************************************)
EXTENDS Integers, Sequences, FiniteSets, TLC

VARIABLES
  pc,           \* where the session's control is
  credentials,  \* index.js start(): the key and iv askForCredentials returned
  encdec,       \* index.js: the global cipher instance
  exitCode,     \* the process exit code, -1 while the process runs
  exitPending,  \* handleUnexpectedError is waiting for Enter to exit(1)
  lastError,    \* the message handleUnexpectedError was last called with
  flow,         \* the flow the main menu entered last
  flowEnd,      \* how that flow stands: running, or the way it ended
  inputFile,    \* the file named for that flow
  keyPairs,     \* handleDecryptionFlow: the collected entries
  records,      \* import flows: the parsed records being iterated
  cursor,       \* the number of records the running loop has consumed
  results,      \* import flows: the results array
  success,      \* the running loop's success counter
  failed,       \* the running loop's failed counter
  calls,        \* the cipherHex of each decryptPayload call of the loop, in order
  spinner,      \* the flow's spinner: none, spinning or succeeded
  table,        \* the rows console.table displayed for the flow
  summary,      \* the summary lines printed by the flow
  exportArg,    \* the data handed to exportResultsToFile by the flow
  written,      \* the kind of file exportResultsToFile wrote for the flow
  unit,         \* a direct use of the EncDec class: arguments and outcomes
  api,          \* a direct use of createSpinner: the spinner and what it printed
  chalkLevel    \* chalk.level: the colour support chalk found on the terminal

sessionVars ==
  <<pc, credentials, encdec, exitCode, exitPending, lastError, flow, flowEnd,
    inputFile, keyPairs, records, cursor, results, success, failed, calls,
    spinner, table, summary, exportArg, written, chalkLevel>>

vars == <<sessionVars, unit, api>>

(***************************************************************************)
(* Characters and regular-expression character classes                     *)
(***************************************************************************)
Digits == {"0", "1", "2", "3", "4", "5", "6", "7", "8", "9"}

LowerHex == {"a", "b", "c", "d", "e", "f"}

UpperHex == {"A", "B", "C", "D", "E", "F"}

\* the class [0-9a-fA-F] of the three patterns
HexChars == Digits \cup LowerHex \cup UpperHex

\* the ASCII characters of code 32 (space) to 126; the grave accent (96),
\* which the parser does not take in a string, is written as its code
ASCII ==
  <<
  " ", "!", "\"", "#", "$", "%", "&", "'", "(", ")", "*", "+",
  ",", "-", ".", "/", "0", "1", "2", "3", "4", "5", "6", "7",
  "8", "9", ":", ";", "<", "=", ">", "?", "@", "A", "B", "C",
  "D", "E", "F", "G", "H", "I", "J", "K", "L", "M", "N", "O",
  "P", "Q", "R", "S", "T", "U", "V", "W", "X", "Y", "Z", "[",
  "\\", "]", "^", "_", "\\u96", "a", "b", "c", "d", "e", "f", "g",
  "h", "i", "j", "k", "l", "m", "n", "o", "p", "q", "r", "s",
  "t", "u", "v", "w", "x", "y", "z", "{", "|", "}", "~" >>

\* String.fromCharCode of one UTF-16 code unit
Chr(u) == IF u >= 32 /\ u <= 126 THEN ASCII[u - 31] ELSE "\\u" \o ToString(u)

\* the code units of WhiteSpace and LineTerminator (ECMAScript 12.2, 12.3):
\* TAB, LF, VT, FF, CR, SP, NBSP, the space separators and ZWNBSP
WhiteSpaceUnits ==
  {9, 10, 11, 12, 13, 32, 160, 5760} \cup (8192..8202)
  \cup {8232, 8233, 8239, 8287, 12288, 65279}

\* what String.prototype.trim removes; the four characters that have an
\* escape of their own are members in that spelling too
WhiteSpace == {Chr(u) : u \in WhiteSpaceUnits} \cup {"\t", "\n", "\f", "\r"}

\* parseInt(c, 16) of one hex digit
HexVal(c) ==
  CASE c = "0" -> 0 [] c = "1" -> 1 [] c = "2" -> 2 [] c = "3" -> 3
    [] c = "4" -> 4 [] c = "5" -> 5 [] c = "6" -> 6 [] c = "7" -> 7
    [] c = "8" -> 8 [] c = "9" -> 9
    [] c \in {"a", "A"} -> 10 [] c \in {"b", "B"} -> 11
    [] c \in {"c", "C"} -> 12 [] c \in {"d", "D"} -> 13
    [] c \in {"e", "E"} -> 14 [] c \in {"f", "F"} -> 15

\* one digit of Number.prototype.toString(16)
HexDigit(n) ==
  <<"0", "1", "2", "3", "4", "5", "6", "7", "8", "9",
    "a", "b", "c", "d", "e", "f">>[n + 1]

\* s.repeat(n)
RECURSIVE Rep(_, _)
Rep(s, n) == IF n <= 0 THEN <<>> ELSE s \o Rep(s, n - 1)

\* String.prototype.trim
RECURSIVE TrimStart(_)
TrimStart(s) ==
  IF s # <<>> /\ Head(s) \in WhiteSpace THEN TrimStart(Tail(s)) ELSE s

RECURSIVE TrimEnd(_)
TrimEnd(s) ==
  IF s # <<>> /\ s[Len(s)] \in WhiteSpace
  THEN TrimEnd(SubSeq(s, 1, Len(s) - 1)) ELSE s

Trim(s) == TrimEnd(TrimStart(s))

\* /^[0-9a-fA-F]{n}$/.test(s)
IsHexOfLen(s, n) == Len(s) = n /\ \A i \in 1..Len(s) : s[i] \in HexChars

\* /^[0-9a-fA-F]+$/.test(s)
IsHexPlus(s) == Len(s) >= 1 /\ \A i \in 1..Len(s) : s[i] \in HexChars

(***************************************************************************)
(* crypto-js: Hex encoder                                                  *)
(***************************************************************************)
\* CryptoJS.enc.Hex.parse: two hex digits per byte
RECURSIVE HexParse(_)
HexParse(s) ==
  IF Len(s) < 2 THEN <<>>
  ELSE <<16 * HexVal(s[1]) + HexVal(s[2])>> \o HexParse(SubSeq(s, 3, Len(s)))

\* WordArray.toString(CryptoJS.enc.Hex): lower-case digits
RECURSIVE HexStringify(_)
HexStringify(b) ==
  IF b = <<>> THEN <<>>
  ELSE <<HexDigit(Head(b) \div 16), HexDigit(Head(b) % 16)>> \o HexStringify(Tail(b))

(***************************************************************************)
(* crypto-js: AES-256 (FIPS-197), CBC mode                                 *)
(***************************************************************************)
\* exclusive or of two n-bit values, bit by bit
RECURSIVE XorBits(_, _, _)
XorBits(a, b, n) ==
  IF n = 0 THEN 0
  ELSE (((a % 2) + (b % 2)) % 2) + 2 * XorBits(a \div 2, b \div 2, n - 1)

\* the tuple <<F(lo), ..., F(hi)>>, built by halves
RECURSIVE Table(_, _, _)
Table(F(_), lo, hi) ==
  IF lo > hi THEN <<>>
  ELSE IF lo = hi THEN <<F(lo)>>
  ELSE Table(F, lo, (lo + hi) \div 2) \o Table(F, ((lo + hi) \div 2) + 1, hi)

\* XOR_NIBBLE[a + 1][b + 1] is a xor b, for 4-bit a and b
XOR_NIBBLE == Table(LAMBDA a : Table(LAMBDA b : XorBits(a, b, 4), 0, 15), 0, 15)

\* exclusive or of two bytes
Xor(a, b) ==
  16 * XOR_NIBBLE[(a \div 16) + 1][(b \div 16) + 1]
  + XOR_NIBBLE[(a % 16) + 1][(b % 16) + 1]

Xor4(a, b, c, d) == Xor(Xor(a, b), Xor(c, d))

\* a word is 4 bytes, a block 16; both are built element by element
Tup4(F(_)) == <<F(1), F(2), F(3), F(4)>>

Tup16(F(_)) ==
  <<F(1), F(2), F(3), F(4), F(5), F(6), F(7), F(8),
    F(9), F(10), F(11), F(12), F(13), F(14), F(15), F(16)>>

XorWord(x, y) == Tup4(LAMBDA i : Xor(x[i], y[i]))

XorBlock(x, y) == Tup16(LAMBDA i : Xor(x[i], y[i]))

SBOX ==
  <<
        99, 124, 119, 123, 242, 107, 111, 197,  48,   1, 103,  43, 254, 215, 171, 118,
       202, 130, 201, 125, 250,  89,  71, 240, 173, 212, 162, 175, 156, 164, 114, 192,
       183, 253, 147,  38,  54,  63, 247, 204,  52, 165, 229, 241, 113, 216,  49,  21,
         4, 199,  35, 195,  24, 150,   5, 154,   7,  18, 128, 226, 235,  39, 178, 117,
         9, 131,  44,  26,  27, 110,  90, 160,  82,  59, 214, 179,  41, 227,  47, 132,
        83, 209,   0, 237,  32, 252, 177,  91, 106, 203, 190,  57,  74,  76,  88, 207,
       208, 239, 170, 251,  67,  77,  51, 133,  69, 249,   2, 127,  80,  60, 159, 168,
        81, 163,  64, 143, 146, 157,  56, 245, 188, 182, 218,  33,  16, 255, 243, 210,
       205,  12,  19, 236,  95, 151,  68,  23, 196, 167, 126,  61, 100,  93,  25, 115,
        96, 129,  79, 220,  34,  42, 144, 136,  70, 238, 184,  20, 222,  94,  11, 219,
       224,  50,  58,  10,  73,   6,  36,  92, 194, 211, 172,  98, 145, 149, 228, 121,
       231, 200,  55, 109, 141, 213,  78, 169, 108,  86, 244, 234, 101, 122, 174,   8,
       186, 120,  37,  46,  28, 166, 180, 198, 232, 221, 116,  31,  75, 189, 139, 138,
       112,  62, 181, 102,  72,   3, 246,  14,  97,  53,  87, 185, 134, 193,  29, 158,
       225, 248, 152,  17, 105, 217, 142, 148, 155,  30, 135, 233, 206,  85,  40, 223,
       140, 161, 137,  13, 191, 230,  66, 104,  65, 153,  45,  15, 176,  84, 187,  22 >>

SubByte(b) == SBOX[b + 1]

INV_SBOX == Table(LAMBDA y : CHOOSE x \in 0..255 : SBOX[x + 1] = y, 0, 255)

InvSubByte(b) == INV_SBOX[b + 1]

\* multiplication by x in GF(2^8) modulo x^8 + x^4 + x^3 + x + 1
XTime(a) == IF a < 128 THEN 2 * a ELSE Xor((2 * a) % 256, 27)

RECURSIVE GMul(_, _)
GMul(a, b) ==
  IF b = 0 THEN 0
  ELSE Xor(IF b % 2 = 1 THEN a ELSE 0, GMul(XTime(a), b \div 2))

MUL2 == Table(LAMBDA a : GMul(a, 2), 0, 255)

MUL3 == Table(LAMBDA a : GMul(a, 3), 0, 255)

MUL9 == Table(LAMBDA a : GMul(a, 9), 0, 255)

MUL11 == Table(LAMBDA a : GMul(a, 11), 0, 255)

MUL13 == Table(LAMBDA a : GMul(a, 13), 0, 255)

MUL14 == Table(LAMBDA a : GMul(a, 14), 0, 255)

\* round constants of the key schedule
RECURSIVE RCON(_)
RCON(i) == IF i = 1 THEN 1 ELSE XTime(RCON(i - 1))

\* the 60 key-schedule words (4 bytes each) of a 32-byte key
RECURSIVE KeyWords(_, _)
KeyWords(w, n) ==
  IF Len(w) >= n THEN w
  ELSE LET i == Len(w)
           t == w[i]
           u == IF i % 8 = 0
                THEN <<Xor(SubByte(t[2]), RCON(i \div 8)), SubByte(t[3]),
                       SubByte(t[4]), SubByte(t[1])>>
                ELSE IF i % 8 = 4
                THEN <<SubByte(t[1]), SubByte(t[2]), SubByte(t[3]), SubByte(t[4])>>
                ELSE t
       IN KeyWords(Append(w, XorWord(w[i - 7], u)), n)

\* the 15 round keys, 16 bytes each: round r has index r + 1
ExpandKey(key) ==
  LET w == KeyWords(<<SubSeq(key, 1, 4), SubSeq(key, 5, 8), SubSeq(key, 9, 12),
                      SubSeq(key, 13, 16), SubSeq(key, 17, 20), SubSeq(key, 21, 24),
                      SubSeq(key, 25, 28), SubSeq(key, 29, 32)>>, 60)
  IN Table(LAMBDA r : w[4 * r + 1] \o w[4 * r + 2] \o w[4 * r + 3] \o w[4 * r + 4], 0, 14)

\* the state is 16 bytes in input order: byte 4c + r + 1 is row r of column c
ShiftRows(s) == Tup16(LAMBDA i : s[(((i - 1) + 4 * ((i - 1) % 4)) % 16) + 1])

InvShiftRows(s) == Tup16(LAMBDA i : s[(((i - 1) + 12 * ((i - 1) % 4)) % 16) + 1])

SubBytes(s) == Tup16(LAMBDA i : SubByte(s[i]))

InvSubBytes(s) == Tup16(LAMBDA i : InvSubByte(s[i]))

MixColumns(s) ==
  Tup16(LAMBDA i :
     LET c == 4 * ((i - 1) \div 4)
         r == (i - 1) % 4
     IN Xor4(MUL2[s[c + r + 1] + 1], MUL3[s[c + ((r + 1) % 4) + 1] + 1],
             s[c + ((r + 2) % 4) + 1], s[c + ((r + 3) % 4) + 1]))

InvMixColumns(s) ==
  Tup16(LAMBDA i :
     LET c == 4 * ((i - 1) \div 4)
         r == (i - 1) % 4
     IN Xor4(MUL14[s[c + r + 1] + 1], MUL11[s[c + ((r + 1) % 4) + 1] + 1],
             MUL13[s[c + ((r + 2) % 4) + 1] + 1], MUL9[s[c + ((r + 3) % 4) + 1] + 1]))

RECURSIVE EncRounds(_, _, _)
EncRounds(s, rk, r) ==
  IF Len(s) # 16 THEN s
  ELSE IF r = 14 THEN XorBlock(ShiftRows(SubBytes(s)), rk[15])
  ELSE EncRounds(XorBlock(MixColumns(ShiftRows(SubBytes(s))), rk[r + 1]), rk, r + 1)

EncryptBlock(rk, block) == EncRounds(XorBlock(block, rk[1]), rk, 1)

RECURSIVE DecRounds(_, _, _)
DecRounds(s, rk, r) ==
  IF Len(s) # 16 THEN s
  ELSE IF r = 0 THEN XorBlock(InvSubBytes(InvShiftRows(s)), rk[1])
  ELSE DecRounds(InvMixColumns(XorBlock(InvSubBytes(InvShiftRows(s)), rk[r + 1])), rk, r - 1)

DecryptBlock(rk, block) == DecRounds(XorBlock(block, rk[15]), rk, 13)

\* CBC: each block is xored with the previous ciphertext block (first: the IV)
RECURSIVE CbcEncrypt(_, _, _)
CbcEncrypt(rk, prev, data) ==
  IF Len(data) < 16 THEN <<>>
  ELSE LET c == EncryptBlock(rk, XorBlock(SubSeq(data, 1, 16), prev))
       IN c \o CbcEncrypt(rk, c, SubSeq(data, 17, Len(data)))

RECURSIVE CbcDecrypt(_, _, _)
CbcDecrypt(rk, prev, data) ==
  IF Len(data) < 16 THEN <<>>
  ELSE LET c == SubSeq(data, 1, 16)
       IN XorBlock(DecryptBlock(rk, c), prev) \o CbcDecrypt(rk, c, SubSeq(data, 17, Len(data)))

(***************************************************************************)
(* crypto-js: WordArray, Pkcs7 padding, Latin1 / Utf8 encoders             *)
(***************************************************************************)
\* a WordArray: its bytes and the count of significant ones
WordArray(bytes, n) == [words |-> bytes, sigBytes |-> n]

\* a padding that adds nothing to a whole number of blocks
Pkcs7Pad_NoFullBlock(wa) ==
  LET n == (16 - (wa.sigBytes % 16)) % 16
  IN WordArray(SubSeq(wa.words, 1, wa.sigBytes) \o Rep(<<n>>, n), wa.sigBytes + n)

\* CryptoJS.pad.Pkcs7.pad: n = 16 - (length mod 16) bytes, each of value n
Pkcs7Pad(wa) ==
  LET n == 16 - (wa.sigBytes % 16)
  IN WordArray(SubSeq(wa.words, 1, wa.sigBytes) \o Rep(<<n>>, n), wa.sigBytes + n)

\* CryptoJS.pad.Pkcs7.unpad: the last significant byte is the count of bytes
\* dropped; neither its range nor the other padding bytes are looked at
Pkcs7Unpad(wa) ==
  LET nPaddingBytes ==
        IF wa.sigBytes >= 1 /\ wa.sigBytes <= Len(wa.words)
        THEN wa.words[wa.sigBytes] ELSE 0
  IN WordArray(wa.words, wa.sigBytes - nPaddingBytes)

\* the UTF-16 code units of a code point
FromCodePoint(cp) ==
  IF cp < 65536 THEN <<Chr(cp)>>
  ELSE <<Chr(55296 + ((cp - 65536) \div 1024)), Chr(56320 + ((cp - 65536) % 1024))>>

\* CryptoJS.enc.Latin1.stringify: one character per significant byte; a
\* byte past the end of the words reads as 0
Latin1Bytes(wa) ==
  IF wa.sigBytes <= 0 THEN <<>>
  ELSE IF wa.sigBytes <= Len(wa.words) THEN SubSeq(wa.words, 1, wa.sigBytes)
  ELSE wa.words \o Rep(<<0>>, wa.sigBytes - Len(wa.words))

IsCont(b) == b >= 128 /\ b <= 191

\* length of the UTF-8 sequence a byte starts, 0 when it starts none
Utf8SeqLen(b) ==
  IF b <= 127 THEN 1
  ELSE IF b >= 194 /\ b <= 223 THEN 2
  ELSE IF b >= 224 /\ b <= 239 THEN 3
  ELSE IF b >= 240 /\ b <= 244 THEN 4
  ELSE 0

\* decodeURIComponent(escape(latin1)): strict UTF-8 decoding, a URIError for
\* stray or missing continuation bytes, overlong forms, surrogates and code
\* points past U+10FFFF
RECURSIVE Utf8Decode(_)
Utf8Decode(b) ==
  IF Len(b) = 0 THEN [ok |-> TRUE, text |-> <<>>]
  ELSE
    LET n == Utf8SeqLen(b[1])
        wellFormed ==
          /\ n >= 1
          /\ Len(b) >= n
          /\ \A i \in 2..n : IsCont(b[i])
          /\ (b[1] = 224 => b[2] >= 160)
          /\ (b[1] = 237 => b[2] <= 159)
          /\ (b[1] = 240 => b[2] >= 144)
          /\ (b[1] = 244 => b[2] <= 143)
        cp == CASE n = 1 -> b[1]
                [] n = 2 -> (b[1] - 192) * 64 + (b[2] - 128)
                [] n = 3 -> (b[1] - 224) * 4096 + (b[2] - 128) * 64 + (b[3] - 128)
                [] n = 4 -> (b[1] - 240) * 262144 + (b[2] - 128) * 4096
                            + (b[3] - 128) * 64 + (b[4] - 128)
    IN IF ~wellFormed THEN [ok |-> FALSE, text |-> <<>>]
       ELSE LET rest == Utf8Decode(SubSeq(b, n + 1, Len(b)))
            IN IF rest.ok THEN [ok |-> TRUE, text |-> FromCodePoint(cp) \o rest.text]
               ELSE rest

\* CryptoJS.enc.Utf8.stringify: throws Error("Malformed UTF-8 data")
Utf8Stringify(wa) == Utf8Decode(Latin1Bytes(wa))

\* String.prototype.charCodeAt of a one-character text: the inverse of Chr
CharCode(c) ==
  IF \E i \in 1..Len(ASCII) : ASCII[i] = c
  THEN 31 + (CHOOSE i \in 1..Len(ASCII) : ASCII[i] = c)
  ELSE CHOOSE u \in (0..31) \cup (127..65535) : Chr(u) = c

\* the UTF-8 octets of a code point
Utf8Octets(cp) ==
  IF cp < 128 THEN <<cp>>
  ELSE IF cp < 2048 THEN <<192 + (cp \div 64), 128 + (cp % 64)>>
  ELSE IF cp < 65536
  THEN <<224 + (cp \div 4096), 128 + ((cp \div 64) % 64), 128 + (cp % 64)>>
  ELSE <<240 + (cp \div 262144), 128 + ((cp \div 4096) % 64),
         128 + ((cp \div 64) % 64), 128 + (cp % 64)>>

IsHighSurrogate(u) == u >= 55296 /\ u <= 56319

IsLowSurrogate(u) == u >= 56320 /\ u <= 57343

\* unescape(encodeURIComponent(str)) over the UTF-16 code units of str: a
\* surrogate pair is one code point; a surrogate that is not part of a pair
\* is a URIError
RECURSIVE Utf8Encode(_)
Utf8Encode(units) ==
  IF Len(units) = 0 THEN [ok |-> TRUE, bytes |-> <<>>]
  ELSE IF IsLowSurrogate(units[1]) THEN [ok |-> FALSE, bytes |-> <<>>]
  ELSE IF IsHighSurrogate(units[1])
  THEN IF Len(units) < 2 \/ ~IsLowSurrogate(units[2])
       THEN [ok |-> FALSE, bytes |-> <<>>]
       ELSE LET rest == Utf8Encode(SubSeq(units, 3, Len(units)))
                cp == 65536 + (units[1] - 55296) * 1024 + (units[2] - 56320)
            IN IF rest.ok THEN [ok |-> TRUE, bytes |-> Utf8Octets(cp) \o rest.bytes]
               ELSE rest
  ELSE LET rest == Utf8Encode(SubSeq(units, 2, Len(units)))
       IN IF rest.ok
          THEN [ok |-> TRUE, bytes |-> Utf8Octets(units[1]) \o rest.bytes]
          ELSE rest

\* CryptoJS.enc.Utf8.parse: throws URIError("URI malformed")
Utf8Parse(str) == Utf8Encode([i \in 1..Len(str) |-> CharCode(str[i])])

\* CryptoJS.AES.decrypt(..., { mode: CBC, padding: Pkcs7 }): the decryptor
\* processes every block, then unpads
AesDecrypt(ciphertext, key, iv) ==
  Pkcs7Unpad(WordArray(CbcDecrypt(ExpandKey(key), iv, ciphertext), Len(ciphertext)))

\* CryptoJS.AES.encrypt(..., { mode: CBC, padding: Pkcs7 }).ciphertext
AesEncrypt(plain, key, iv) ==
  CbcEncrypt(ExpandKey(key), iv, Pkcs7Pad(WordArray(plain, Len(plain))).words)

(***************************************************************************)
(* crypto-js: SHA-256 (FIPS 180-4); a 32-bit word is <<high, low>>, its two *)
(* 16-bit halves                                                           *)
(***************************************************************************)
POW2 == <<1, 2, 4, 8, 16, 32, 64, 128, 256, 512, 1024, 2048, 4096, 8192,
          16384, 32768, 65536>>

\* 2 to the power e, for e in 0..16
Pow2(e) == POW2[e + 1]

Xor16(a, b) == 256 * Xor(a \div 256, b \div 256) + Xor(a % 256, b % 256)

\* a & b is half of what a + b holds beyond a ^ b
And16(a, b) == (a + b - Xor16(a, b)) \div 2

Xor32(x, y) == <<Xor16(x[1], y[1]), Xor16(x[2], y[2])>>

Xor32x3(x, y, z) == Xor32(Xor32(x, y), z)

And32(x, y) == <<And16(x[1], y[1]), And16(x[2], y[2])>>

Not32(x) == <<65535 - x[1], 65535 - x[2]>>

\* (x + y) | 0
Add32(x, y) ==
  <<(x[1] + y[1] + ((x[2] + y[2]) \div 65536)) % 65536, (x[2] + y[2]) % 65536>>

\* (x << (32 - n)) | (x >>> n), for n in 1..31
Rotr(x, n) ==
  IF n >= 16 THEN
    IF n = 16 THEN <<x[2], x[1]>>
    ELSE <<(x[2] \div Pow2(n - 16)) + (x[1] % Pow2(n - 16)) * Pow2(32 - n),
           (x[1] \div Pow2(n - 16)) + (x[2] % Pow2(n - 16)) * Pow2(32 - n)>>
  ELSE <<(x[1] \div Pow2(n)) + (x[2] % Pow2(n)) * Pow2(16 - n),
         (x[2] \div Pow2(n)) + (x[1] % Pow2(n)) * Pow2(16 - n)>>

\* x >>> n, for n in 1..15
Shr(x, n) ==
  <<x[1] \div Pow2(n), (x[2] \div Pow2(n)) + (x[1] % Pow2(n)) * Pow2(16 - n)>>

\* the first 32 bits of the fractional parts of the cube roots of the first
\* 64 primes
SHA_K ==
  <<
    <<17034, 12184>>, <<28983, 17553>>, <<46528, 64463>>, <<59829, 56229>>,
    <<14678, 49755>>, <<23025, 4593>>, <<37439, 33444>>, <<43804, 24277>>,
    <<55303, 43672>>, <<4739, 23297>>, <<9265, 34238>>, <<21772, 32195>>,
    <<29374, 23924>>, <<32990, 45566>>, <<39900, 1703>>, <<49563, 61812>>,
    <<58523, 27073>>, <<61374, 18310>>, <<4033, 40390>>, <<9228, 41420>>,
    <<11753, 11375>>, <<19060, 33962>>, <<23728, 43484>>, <<30457, 35034>>,
    <<38974, 20818>>, <<43057, 50797>>, <<45059, 10184>>, <<48985, 32711>>,
    <<50912, 3059>>, <<54695, 37191>>, <<1738, 25425>>, <<5161, 10599>>,
    <<10167, 2693>>, <<11803, 8504>>, <<19756, 28156>>, <<21304, 3347>>,
    <<25866, 29524>>, <<30314, 2747>>, <<33218, 51502>>, <<37490, 11397>>,
    <<41663, 59553>>, <<43034, 26187>>, <<49739, 35696>>, <<51052, 20899>>,
    <<53650, 59417>>, <<54937, 1572>>, <<62478, 13701>>, <<4202, 41072>>,
    <<6564, 49430>>, <<7735, 27656>>, <<10056, 30540>>, <<13488, 48309>>,
    <<14620, 3251>>, <<20184, 43594>>, <<23452, 51791>>, <<26670, 28659>>,
    <<29839, 33518>>, <<30885, 25455>>, <<33992, 30740>>, <<36039, 520>>,
    <<37054, 65530>>, <<42064, 27883>>, <<48889, 41975>>, <<50801, 30962>> >>

\* the first 32 bits of the fractional parts of the square roots of the
\* first 8 primes
SHA_H ==
  <<
    <<27145, 58983>>, <<47975, 44677>>, <<15470, 62322>>, <<42319, 62778>>,
    <<20750, 21119>>, <<39685, 26764>>, <<8067, 55723>>, <<23520, 52505>> >>

\* the message, the byte 128, zero bytes up to 8 short of a whole number of
\* 64-byte blocks, and the length of the message in bits as 8 bytes
Sha256Pad(msg) ==
  LET n == Len(msg)
      zeros == (119 - (n % 64)) % 64
      bits == 8 * n
  IN msg \o <<128>> \o Rep(<<0>>, zeros)
     \o <<0, 0, 0, 0, 0, (bits \div 65536) % 256, (bits \div 256) % 256, bits % 256>>

\* the 16 words of a 64-byte block
Sha256Words(b) ==
  Table(LAMBDA t : <<256 * b[4 * t + 1] + b[4 * t + 2],
                     256 * b[4 * t + 3] + b[4 * t + 4]>>, 0, 15)

\* the message schedule W[0..63], W[t] being w[t + 1]
Gamma0(x) == Xor32x3(Rotr(x, 7), Rotr(x, 18), Shr(x, 3))

Gamma1(x) == Xor32x3(Rotr(x, 17), Rotr(x, 19), Shr(x, 10))

ScheduleWord(w, t) ==
  Add32(Add32(Gamma0(w[t - 15]), w[t - 7]), Add32(Gamma1(w[t - 2]), w[t - 16]))

RECURSIVE Sha256Schedule(_)
Sha256Schedule(w) ==
  IF Len(w) >= 64 THEN w
  ELSE Sha256Schedule(Append(w, ScheduleWord(w, Len(w) + 1)))

\* one round over the working variables st = <<a, b, c, d, e, f, g, h>>
Ch(e, f, g) == Xor32(And32(e, f), And32(Not32(e), g))

Maj(a, b, c) == Xor32x3(And32(a, b), And32(a, c), And32(b, c))

Sigma0(a) == Xor32x3(Rotr(a, 2), Rotr(a, 13), Rotr(a, 22))

Sigma1(e) == Xor32x3(Rotr(e, 6), Rotr(e, 11), Rotr(e, 25))

RoundT1(st, k, wt) ==
  Add32(Add32(Add32(st[8], Sigma1(st[5])), Add32(Ch(st[5], st[6], st[7]), k)), wt)

RoundT2(st) == Add32(Sigma0(st[1]), Maj(st[1], st[2], st[3]))

RoundStep(st, t1, t2) ==
  <<Add32(t1, t2), st[1], st[2], st[3], Add32(st[4], t1), st[5], st[6], st[7]>>

\* the rounds t..64
RECURSIVE Sha256Rounds(_, _, _)
Sha256Rounds(st, w, t) ==
  IF t > 64 \/ Len(st) # 8 THEN st
  ELSE Sha256Rounds(RoundStep(st, RoundT1(st, SHA_K[t], w[t]), RoundT2(st)), w, t + 1)

\* the working variables added word by word to the hash value
AddWords(hash, st) ==
  <<Add32(hash[1], st[1]), Add32(hash[2], st[2]), Add32(hash[3], st[3]),
    Add32(hash[4], st[4]), Add32(hash[5], st[5]), Add32(hash[6], st[6]),
    Add32(hash[7], st[7]), Add32(hash[8], st[8])>>

\* one block folded into the hash value
Sha256Block(hash, b) ==
  AddWords(hash, Sha256Rounds(hash, Sha256Schedule(Sha256Words(b)), 1))

RECURSIVE Sha256Blocks(_, _)
Sha256Blocks(hash, data) ==
  IF Len(data) < 64 THEN hash
  ELSE Sha256Blocks(Sha256Block(hash, SubSeq(data, 1, 64)), SubSeq(data, 65, Len(data)))

\* the bytes of a sequence of words
RECURSIVE WordBytes(_)
WordBytes(ws) ==
  IF ws = <<>> THEN <<>>
  ELSE <<Head(ws)[1] \div 256, Head(ws)[1] % 256, Head(ws)[2] \div 256, Head(ws)[2] % 256>>
       \o WordBytes(Tail(ws))

\* CryptoJS.SHA256(bytes): the 32 bytes of the digest
Sha256(msg) == WordBytes(Sha256Blocks(SHA_H, Sha256Pad(msg)))

(***************************************************************************)
(* EncDec (utils/EncDec.js)                                                *)
(***************************************************************************)
KEY_HEX_LEN == 64

IV_HEX_LEN == 32

BLOCK_HEX_LEN == 32

\* the instance fields before the constructor has assigned them
NoCtx == [key |-> <<>>, iv |-> <<>>]

ERR_KEY ==
  <<"E", "n", "c", "D", "e", "c", " ", "i", "n", "i", "t", " ", "f", "a", "i",
    "l", "e", "d", ":", " ", "S", "e", "c", "r", "e", "t", " ", "k", "e", "y",
    " ", "m", "u", "s", "t", " ", "b", "e", " ", "6", "4", "-", "c", "h", "a",
    "r", "a", "c", "t", "e", "r", " ", "h", "e", "x", "a", "d", "e", "c", "i",
    "m", "a", "l">>

ERR_IV ==
  <<"E", "n", "c", "D", "e", "c", " ", "i", "n", "i", "t", " ", "f", "a", "i",
    "l", "e", "d", ":", " ", "I", "V", " ", "m", "u", "s", "t", " ", "b", "e",
    " ", "3", "2", "-", "c", "h", "a", "r", "a", "c", "t", "e", "r", " ", "h",
    "e", "x", "a", "d", "e", "c", "i", "m", "a", "l">>

\* the message of the shape error
ERR_SHAPE ==
  <<"C", "i", "p", "h", "e", "r", "t", "e", "x", "t", " ", "m", "u", "s", "t",
    " ", "b", "e", " ", "h", "e", "x", "a", "d", "e", "c", "i", "m", "a", "l",
    " ", "a", "n", "d", " ", "b", "l", "o", "c", "k", "-", "a", "l", "i", "g",
    "n", "e", "d", " ", "(", "3", "2", ",", " ", "6", "4", ",", " ",
    "\\u8230", " ", "c", "h", "a", "r", "s", ")">>

ERR_DECRYPT ==
  <<"D", "e", "c", "r", "y", "p", "t", "i", "o", "n", " ", "f", "a", "i", "l",
    "e", "d", ":", " ", "M", "a", "l", "f", "o", "r", "m", "e", "d", " ", "U",
    "T", "F", "-", "8", " ", "d", "a", "t", "a">>

\* a constructor that tests the IV before the key
EncDec_IvFirst(secretKeyHex, ivHex) ==
  IF ~IsHexOfLen(ivHex, IV_HEX_LEN)
  THEN [ok |-> FALSE, this |-> NoCtx, error |-> ERR_IV]
  ELSE IF ~IsHexOfLen(secretKeyHex, KEY_HEX_LEN)
  THEN [ok |-> FALSE, this |-> NoCtx, error |-> ERR_KEY]
  ELSE [ok |-> TRUE,
        this |-> [key |-> HexParse(secretKeyHex), iv |-> HexParse(ivHex)],
        error |-> <<>>]

\* new EncDec(secretKeyHex, ivHex): the instance made or the error thrown
EncDec(secretKeyHex, ivHex) ==
  IF ~IsHexOfLen(secretKeyHex, KEY_HEX_LEN)
  THEN [ok |-> FALSE, this |-> NoCtx, error |-> ERR_KEY]
  ELSE IF ~IsHexOfLen(ivHex, IV_HEX_LEN)
  THEN [ok |-> FALSE, this |-> NoCtx, error |-> ERR_IV]
  ELSE [ok |-> TRUE,
        this |-> [key |-> HexParse(secretKeyHex), iv |-> HexParse(ivHex)],
        error |-> <<>>]

\* the shape check of decryptPayload: TRUE when the payload is rejected
\* a shape test that asks for whole bytes, not whole blocks
ShapeRejected_WholeBytes(cipherHex) ==
  ~IsHexPlus(cipherHex) \/ Len(cipherHex) % 2 # 0

\* a shape test that takes one block only
ShapeRejected_OneBlock(cipherHex) ==
  ~IsHexPlus(cipherHex) \/ Len(cipherHex) # BLOCK_HEX_LEN

ShapeRejected(cipherHex) ==
  ~IsHexPlus(cipherHex) \/ Len(cipherHex) % BLOCK_HEX_LEN # 0

\* this.decryptPayload(cipherHex): the text returned or the error thrown;
\* lib lists the crypto-js calls made, in order
decryptPayload(this, cipherHex) ==
  IF ShapeRejected(cipherHex)
  THEN [ok |-> FALSE, value |-> <<>>, error |-> ERR_SHAPE, lib |-> <<>>]
  ELSE
    LET cipherWords == HexParse(cipherHex)
        decrypted == AesDecrypt(cipherWords, this.key, this.iv)
        text == Utf8Stringify(decrypted)
    IN IF text.ok
       THEN [ok |-> TRUE, value |-> text.text, error |-> <<>>,
             lib |-> <<"Hex.parse", "AES.decrypt", "Utf8.stringify">>]
       ELSE [ok |-> FALSE, value |-> <<>>, error |-> ERR_DECRYPT,
             lib |-> <<"Hex.parse", "AES.decrypt", "Utf8.stringify">>]

ERR_ENCRYPT ==
  <<"E", "n", "c", "r", "y", "p", "t", "i", "o", "n", " ", "f", "a", "i", "l",
    "e", "d", ":", " ", "U", "R", "I", " ", "m", "a", "l", "f", "o", "r", "m",
    "e", "d">>

\* this.encryptPayload(plaintext): the hex returned or the error thrown;
\* AES.encrypt turns a string plaintext into bytes with Utf8.parse
encryptPayload(this, plaintext) ==
  LET parsed == Utf8Parse(plaintext)
  IN IF ~parsed.ok
     THEN [ok |-> FALSE, value |-> <<>>, error |-> ERR_ENCRYPT]
     ELSE [ok |-> TRUE,
           value |-> HexStringify(AesEncrypt(parsed.bytes, this.key, this.iv)),
           error |-> <<>>]
ERR_HASH ==
  <<"H", "a", "s", "h", "i", "n", "g", " ", "f", "a", "i", "l", "e", "d", ":",
    " ", "U", "R", "I", " ", "m", "a", "l", "f", "o", "r", "m", "e", "d">>

\* this.hashPayload(data): the hex digest returned or the error thrown;
\* SHA256 turns a string into bytes with Utf8.parse
hashPayload(this, data) ==
  LET parsed == Utf8Parse(data)
  IN IF ~parsed.ok
     THEN [ok |-> FALSE, value |-> <<>>, error |-> ERR_HASH]
     ELSE [ok |-> TRUE, value |-> HexStringify(Sha256(parsed.bytes)), error |-> <<>>]


\* decryptPayload over the model's contexts and payloads (defined below)
\* is tabulated once: Decrypt is decryptPayload read off that table

(***************************************************************************)
(* Inputs                                                                  *)
(***************************************************************************)
\* how far the lengths of the key, IV and payload arguments stray from the
\* exact lengths
LenSlack == 1

\* the longest payload arguments, in cipher blocks
MaxBlocks == 2

\* README / spec scenario 1: "a1" x 32 and "b2" x 16
GOOD_KEY == Rep(<<"a", "1">>, 32)

GOOD_IV == Rep(<<"b", "2">>, 16)

\* the same bytes written in upper case
UPPER_KEY == Rep(<<"A", "1">>, 32)

UPPER_IV == Rep(<<"B", "2">>, 16)

\* another well-formed key
WRONG_KEY == Rep(<<"0", "f">>, 32)

\* s with its i-th character replaced by c
Subst(s, i, c) == SubSeq(s, 1, i - 1) \o <<c>> \o SubSeq(s, i + 1, Len(s))

\* well-formed arguments, arguments around the exact length, arguments with
\* one character outside the class, arguments with white space around them
ArgsAround(good, exact) ==
  {SubSeq(good \o good, 1, m) : m \in (exact - LenSlack)..(exact + LenSlack)}
  \cup {<<>>, Subst(good, 1, "g"), Subst(good, exact, "G"), Subst(good, 2, "-")}
  \cup {<<" ">> \o good, good \o <<" ">>, good \o <<"\n">>, <<"\t">> \o good \o <<" ">>}

KeyArgs == ArgsAround(GOOD_KEY, KEY_HEX_LEN) \cup {UPPER_KEY, WRONG_KEY}

IvArgs == ArgsAround(GOOD_IV, IV_HEX_LEN) \cup {UPPER_IV}

\* "123-45-6789" encrypted under (GOOD_KEY, GOOD_IV)
P_OK ==
  <<"8", "5", "b", "b", "d", "6", "6", "a", "a", "c", "b", "4", "d", "3",
    "a", "e", "d", "9", "a", "3", "5", "d", "f", "5", "8", "2", "4", "9",
    "5", "3", "b", "4">>

\* the empty text encrypted under (GOOD_KEY, GOOD_IV): one block of padding
P_EMPTY_TEXT ==
  <<"9", "a", "4", "e", "5", "0", "a", "e", "a", "6", "c", "2", "0", "9",
    "7", "6", "b", "8", "d", "f", "a", "e", "2", "a", "3", "e", "2", "2",
    "1", "c", "4", "f">>

\* "caf\u00e9 987-65-4321 ok" (20 UTF-8 bytes) encrypted under (GOOD_KEY, GOOD_IV)
P_TWO_BLOCKS ==
  <<"f", "f", "b", "b", "f", "d", "9", "3", "3", "a", "6", "3", "9", "0",
    "d", "5", "9", "9", "9", "1", "0", "e", "1", "4", "8", "5", "5", "a",
    "d", "a", "0", "9", "c", "6", "d", "2", "5", "c", "d", "7", "2", "8",
    "0", "5", "4", "3", "2", "c", "8", "7", "9", "9", "f", "8", "c", "a",
    "d", "d", "6", "c", "a", "b", "8", "b">>

\* P_OK with its last digit changed: still hex, still one block
P_CORRUPT ==
  <<"8", "5", "b", "b", "d", "6", "6", "a", "a", "c", "b", "4", "d", "3",
    "a", "e", "d", "9", "a", "3", "5", "d", "f", "5", "8", "2", "4", "9",
    "5", "3", "b", "0">>

\* decrypts under (GOOD_KEY, GOOD_IV) to "SECRET" then the bytes 1, 2, ..., 10:
\* the last byte is 10 and the nine before it are not
P_BAD_PAD ==
  <<"8", "5", "b", "7", "5", "4", "2", "d", "0", "9", "7", "1", "4", "7",
    "7", "9", "b", "a", "4", "7", "0", "d", "0", "e", "a", "8", "3", "8",
    "c", "7", "9", "6">>

\* decrypts under (GOOD_KEY, GOOD_IV) to "123-45-6789ABCD" then the byte 0
P_ZERO_LAST ==
  <<"6", "7", "2", "a", "c", "4", "a", "8", "d", "f", "5", "9", "8", "b",
    "5", "e", "6", "d", "7", "d", "6", "8", "a", "a", "5", "0", "a", "c",
    "8", "f", "3", "f">>

\* decrypts under (GOOD_KEY, GOOD_IV) to the byte 255, "23-45-6789" and five
\* bytes 5: well padded, not UTF-8
P_BAD_UTF8 ==
  <<"a", "1", "0", "6", "e", "2", "7", "8", "7", "6", "6", "7", "b", "1",
    "a", "7", "f", "f", "e", "d", "b", "b", "d", "4", "d", "9", "c", "4",
    "c", "f", "b", "9">>

\* spec scenario 4
P_NOT_HEX == <<"n", "o", "t", "-", "h", "e", "x", "!", "!">>

\* the payloads with a known decryption
Vectors ==
  {P_OK, P_EMPTY_TEXT, P_TWO_BLOCKS, P_CORRUPT, P_BAD_PAD, P_ZERO_LAST, P_BAD_UTF8}

\* every length from 0 to one past MaxBlocks blocks, in digits; the vectors, in
\* upper case too; payloads with one character outside the class or with white
\* space around them
CipherArgs ==
  {Rep(<<"0">>, m) : m \in 0..(BLOCK_HEX_LEN * MaxBlocks + LenSlack)}
  \cup {SubSeq(P_TWO_BLOCKS, 1, m) :
          m \in (BLOCK_HEX_LEN - LenSlack)..(BLOCK_HEX_LEN + LenSlack)}
  \cup Vectors
  \cup {Rep(<<"A", "b">>, 16), Rep(<<"F">>, 32)}
  \cup {P_NOT_HEX, Subst(P_OK, 1, "g"), Subst(P_OK, 32, "x"), Subst(P_OK, 7, " ")}
  \cup {<<" ">> \o P_OK, P_OK \o <<" ">>, P_OK \o <<"\n">>}

\* what the manual prompt is given
ManualTyped ==
  {P_OK, P_CORRUPT, P_BAD_UTF8, P_NOT_HEX, <<" ">> \o P_OK, <<" ">>, <<Chr(160)>>}

\* the strings a socialSecurityNumber property or CSV cell holds
SsnTexts == {<<>>, P_OK, P_TWO_BLOCKS, P_CORRUPT, P_BAD_PAD, P_BAD_UTF8, P_NOT_HEX}

\* the instances new EncDec makes from the arguments of the model
Contexts ==
  {e.this : e \in {e \in {EncDec(k, v) : k \in KeyArgs, v \in IvArgs} : e.ok}}

\* the texts encryptPayload is given: the empty text, the text of scenario
\* 1, texts of one byte less than a block, a block and one byte more, text
\* outside ASCII (2, 3 and 4 UTF-8 bytes a character), and two strings that
\* hold a surrogate outside a pair
Plaintexts ==
  {<<>>,
   <<"1", "2", "3", "-", "4", "5", "-", "6", "7", "8", "9">>,
   Rep(<<"x">>, 15), Rep(<<"x">>, 16), Rep(<<"x">>, 17),
   <<"c", "a", "f", "\\u233", " ", "\\u8364", "5">>,
   <<"\\u55357", "\\u56832">>,
   <<"a", "\\u55357">>,
   <<"\\u56832", "\\u55357">>}

\* encryptPayload, tabulated over the instances and plaintexts of the model
ENCRYPT_TABLE == [c \in Contexts |-> [p \in Plaintexts |-> encryptPayload(c, p)]]

\* this.encryptPayload(plaintext), read off the table
Encrypt(this, plaintext) == ENCRYPT_TABLE[this][plaintext]

\* what encryptPayload returns over the model's instances and plaintexts
Encrypted ==
  {ENCRYPT_TABLE[c][p].value :
     c \in Contexts, p \in {q \in Plaintexts : Utf8Parse(q).ok}}

\* the strings hashPayload is given: a text, and a surrogate outside a pair
HashData == {<<"a", "b", "c">>, <<"\\u56832">>}

\* hashPayload, tabulated over the data of the model
HASH_TABLE == [d \in HashData |-> hashPayload(NoCtx, d)]

\* this.hashPayload(data), read off the table: the instance is not read
Hash(this, data) == HASH_TABLE[data]

Payloads == CipherArgs \cup ManualTyped \cup SsnTexts \cup Encrypted

\* decryptPayload, tabulated over the instances and payloads of the model
DECRYPT_TABLE == [c \in Contexts |-> [p \in Payloads |-> decryptPayload(c, p)]]

\* this.decryptPayload(cipherHex), read off the table
Decrypt(this, cipherHex) == DECRYPT_TABLE[this][cipherHex]

(***************************************************************************)
(* Direct use of the class: new EncDec(k, v), then decryptPayload calls    *)
(***************************************************************************)
NotMade == [ok |-> FALSE, this |-> NoCtx, error |-> <<>>]

NoOut == [ok |-> FALSE, value |-> <<>>, error |-> <<>>, lib |-> <<>>]

NoEnc == [ok |-> FALSE, value |-> <<>>, error |-> <<>>]

\* at is the last thing done; plaintext and enc are the argument and outcome
\* of the last encryptPayload call, data and digest those of the last
\* hashPayload call, cipherHex and out those of the last decryptPayload call;
\* before is the outcome of the decryptPayload call before the last when both
\* were given the same ciphertext
UnitIdle ==
  [at |-> "idle", secretKeyHex |-> <<>>, ivHex |-> <<>>, made |-> NotMade,
   plaintext |-> <<>>, enc |-> NoEnc, data |-> <<>>, digest |-> NoEnc,
   cipherHex |-> <<>>, out |-> NoOut, before |-> NoOut]

UnitInit ==
  unit \in {[UnitIdle EXCEPT !.at = "new", !.secretKeyHex = k, !.ivHex = v] :
              k \in KeyArgs, v \in IvArgs}

\* const e = new EncDec(secretKeyHex, ivHex)
UnitNew ==
  /\ unit.at = "new"
  /\ LET r == EncDec(unit.secretKeyHex, unit.ivHex)
     IN unit' = [unit EXCEPT !.at = IF r.ok THEN "made" ELSE "threw", !.made = r]
  /\ UNCHANGED <<sessionVars, api>>

UnitLive == unit.at \in {"made", "called", "encrypted", "hashed"}

\* e.encryptPayload(plaintext), any number of times
UnitEncrypt ==
  /\ UnitLive
  /\ \E p \in Plaintexts :
       unit' = [unit EXCEPT !.at = "encrypted", !.plaintext = p,
                            !.enc = Encrypt(unit.made.this, p)]
  /\ UNCHANGED <<sessionVars, api>>

\* a hashPayload that stores another key in the instance
UnitHash_Rekeys ==
  /\ UnitLive
  /\ \E d \in HashData :
       unit' = [unit EXCEPT !.at = "hashed", !.data = d,
                            !.digest = Hash(unit.made.this, d),
                            !.made.this.key = HexParse(WRONG_KEY)]
  /\ UNCHANGED <<sessionVars, api>>

\* e.hashPayload(data), any number of times
UnitHash ==
  /\ UnitLive
  /\ \E d \in HashData :
       unit' = [unit EXCEPT !.at = "hashed", !.data = d,
                            !.digest = Hash(unit.made.this, d)]
  /\ UNCHANGED <<sessionVars, api>>

\* e.decryptPayload(c) for some c of the given arguments
UnitDecryptOf(arguments) ==
  /\ UnitLive
  /\ \E c \in arguments :
       unit' = [unit EXCEPT !.at = "called", !.cipherHex = c,
                            !.out = Decrypt(unit.made.this, c),
                            !.before = IF unit.out # NoOut /\ c = unit.cipherHex
                                       THEN unit.out ELSE NoOut]
  /\ UNCHANGED <<sessionVars, api>>

\* e.decryptPayload(cipherHex), any number of times
UnitDecrypt == UnitDecryptOf(CipherArgs)

\* e.decryptPayload(cipherHex) among calls of the other methods: the
\* arguments are the payloads with a known decryption, a string that is not
\* hexadecimal, and what encryptPayload returned last
UnitDecryptAgain ==
  UnitDecryptOf(Vectors \cup {P_NOT_HEX}
                \cup (IF unit.enc.ok THEN {unit.enc.value} ELSE {}))

\* the constructor arguments of the sessions that call every method
UnitInitCalls ==
  unit \in {[UnitIdle EXCEPT !.at = "new", !.secretKeyHex = k, !.ivHex = v] :
              k \in {GOOD_KEY, WRONG_KEY, <<>>}, v \in {GOOD_IV, UPPER_IV}}

(***************************************************************************)
(* JavaScript values: what JSON.parse and csv-parse hand to the loops      *)
(***************************************************************************)
Undefined == [t |-> "undefined"]

Null == [t |-> "null"]

Num(n) == [t |-> "number", n |-> n]

Str(s) == [t |-> "string", s |-> s]

\* an object: f maps its own property names to their values
Obj(f) == [t |-> "object", f |-> f]

Arr(items) == [t |-> "array", items |-> items]

\* typeof v
TypeOf(v) == IF v.t \in {"null", "array"} THEN "object" ELSE v.t

\* v.name; reading a property of null or undefined throws a TypeError
CanRead(v) == v.t \notin {"null", "undefined"}

Get(v, name) ==
  IF v.t = "object" /\ name \in DOMAIN v.f THEN v.f[name] ELSE Undefined

\* !v
Falsy(v) ==
  \/ v.t \in {"undefined", "null"}
  \/ v.t = "number" /\ v.n = 0
  \/ v.t = "string" /\ v.s = <<>>

\* a guard that leaves out the length test
IsNonEmptyString_AnyString(v) == TypeOf(v) = "string"

\* typeof v === "string" && v.length > 0
IsNonEmptyString(v) == TypeOf(v) = "string" /\ Len(v.s) > 0

(***************************************************************************)
(* chalk and the messages of the program                                   *)
(***************************************************************************)
\* chalk.level is 0 on a stream without colour support and 1, 2 or 3 on one
\* with it; the codes of red, gray and yellow are the same at 1, 2 and 3
ChalkLevels == {0, 1}

\* chalk wraps text in escape codes on a stream that supports colour and
\* returns it unchanged on one that does not
ColourSupported == chalkLevel > 0

Ansi(code) == <<"\\u27", "[">> \o code \o <<"m">>

Chalk(open, close, text) ==
  IF ColourSupported THEN Ansi(open) \o text \o Ansi(close) ELSE text

chalk_red(text) == Chalk(<<"3", "1">>, <<"3", "9">>, text)

chalk_gray(text) == Chalk(<<"9", "0">>, <<"3", "9">>, text)

chalk_yellow(text) == Chalk(<<"3", "3">>, <<"3", "9">>, text)

\* importJson.js, decrypt.js: "N/A"
TXT_NA ==
  <<"N", "/", "A">>

\* importJson.js: "Invalid _id"
TXT_INVALID_ID ==
  <<"I", "n", "v", "a", "l", "i", "d", " ", "_", "i", "d">>

\* decrypt.js: the placeholder of a collected entry (hourglass, "Not decrypted")
TXT_NOT_DECRYPTED ==
  <<"\\u9203", " ", "N", "o", "t", " ", "d", "e", "c", "r", "y", "p", "t",
    "e", "d">>

\* decrypt.js, manual loop: cross mark, "Failed to decrypt"
TXT_FAILED_TO_DECRYPT ==
  <<"\\u10060", " ", "F", "a", "i", "l", "e", "d", " ", "t", "o", " ", "d",
    "e", "c", "r", "y", "p", "t">>

\* importJson.js: cross mark, "Invalid or missing"
TXT_INVALID_OR_MISSING ==
  <<"\\u10060", " ", "I", "n", "v", "a", "l", "i", "d", " ", "o", "r", " ",
    "m", "i", "s", "s", "i", "n", "g">>

\* importJson.js: cross mark, "Decryption failed"
TXT_DECRYPTION_FAILED ==
  <<"\\u10060", " ", "D", "e", "c", "r", "y", "p", "t", "i", "o", "n", " ",
    "f", "a", "i", "l", "e", "d">>

\* decrypt.js, CSV loop: cross mark, "Invalid"
TXT_INVALID ==
  <<"\\u10060", " ", "I", "n", "v", "a", "l", "i", "d">>

\* decrypt.js, CSV loop: cross mark, "Failed"
TXT_FAILED ==
  <<"\\u10060", " ", "F", "a", "i", "l", "e", "d">>

(***************************************************************************)
(* The loop bodies                                                         *)
(***************************************************************************)
\* importJson.js formatId
formatId(id) ==
  IF Falsy(id) THEN Str(chalk_gray(TXT_NA))
  ELSE IF TypeOf(id) = "object" /\ ~Falsy(Get(id, "$oid")) THEN Get(id, "$oid")
  ELSE IF TypeOf(id) = "string" THEN id
  ELSE Str(chalk_gray(TXT_INVALID_ID))

\* CSV loop: row._id || chalk.gray("N/A")
csvId(id) == IF Falsy(id) THEN Str(chalk_gray(TXT_NA)) ELSE id

\* a try/catch whose catch counts the record as decrypted
tryDecrypt_CatchCountsSuccess(r, cipherHex, failedMarker) ==
  IF r.ok THEN [dec |-> r.value, ok |-> TRUE, called |-> <<cipherHex>>]
  ELSE [dec |-> failedMarker, ok |-> TRUE, called |-> <<cipherHex>>]

\* try { dec = encdec.decryptPayload(enc); success++ }
\* catch { dec = <marker>; failed++ }
\* on the result r of the call: dec is the outcome, ok says which counter is
\* incremented, called lists the decryptPayload calls made
tryDecrypt(r, cipherHex, failedMarker) ==
  IF r.ok THEN [dec |-> r.value, ok |-> TRUE, called |-> <<cipherHex>>]
  ELSE [dec |-> failedMarker, ok |-> FALSE, called |-> <<cipherHex>>]

\* The body both import loops run on one record's socialSecurityNumber:
\* the guard, the call in its try/catch, and the else branch
importOutcome(this, enc, invalidMarker, failedMarker) ==
  IF IsNonEmptyString(enc)
  THEN tryDecrypt(Decrypt(this, enc.s), enc.s, failedMarker)
  ELSE [dec |-> invalidMarker, ok |-> FALSE, called |-> <<>>]

\* The body of the manual loop on one entry: no guard, the call in try/catch
manualOutcome(this, encrypted) ==
  tryDecrypt(Decrypt(this, encrypted), encrypted, chalk_red(TXT_FAILED_TO_DECRYPT))

(***************************************************************************)
(* What the user types and the files the user names                        *)
(***************************************************************************)
\* the longest imported batch
MaxBatch == 2

\* the most entries collected by hand in one visit of the manual flow
MaxManual == 2

\* all sequences over S of length at most n
SeqsUpTo(S, n) == UNION {[1..m -> S] : m \in 0..n}

\* what is typed at the two credential prompts
TypedKeys ==
  {GOOD_KEY, WRONG_KEY, <<" ">> \o GOOD_KEY, GOOD_KEY \o <<" ">>,
   <<Chr(160)>> \o GOOD_KEY,
   SubSeq(GOOD_KEY, 1, KEY_HEX_LEN - 1), Subst(GOOD_KEY, 1, "g")}

TypedIvs ==
  {GOOD_IV, <<" ">> \o GOOD_IV, SubSeq(GOOD_IV, 1, IV_HEX_LEN - 1)}

\* the elements of an imported JSON array
JsonItems ==
  {Obj([_id |-> Str(<<"r", "1">>), socialSecurityNumber |-> Str(P_OK)]),
   Obj([_id |-> Obj("$oid" :> Str(<<"6", "5", "a">>)),
        socialSecurityNumber |-> Str(P_TWO_BLOCKS)]),
   Obj([_id |-> Str(<<"r", "3">>)]),
   Obj([_id |-> Obj("$oid" :> Num(5)), socialSecurityNumber |-> Str(P_OK)]),
   Obj([socialSecurityNumber |-> Num(5)]),
   Obj([_id |-> Num(7), socialSecurityNumber |-> Str(<<>>)]),
   Obj([_id |-> Str(<<"r", "6">>), socialSecurityNumber |-> Str(P_CORRUPT)]),
   Obj([_id |-> Str(<<"r", "7">>), socialSecurityNumber |-> Str(P_BAD_UTF8)]),
   Obj([_id |-> Str(<<"r", "8">>), socialSecurityNumber |-> Str(P_NOT_HEX)]),
   Null,
   Num(5)}

NoFile == [exists |-> FALSE, readable |-> FALSE, parses |-> FALSE, data |-> Undefined]

\* a JSON file: missing, a path fs.readFileSync cannot read (it holds a
\* directory), not JSON, or a document
JsonFiles ==
  {NoFile,
   [exists |-> TRUE, readable |-> FALSE, parses |-> FALSE, data |-> Undefined],
   [exists |-> TRUE, readable |-> TRUE, parses |-> FALSE, data |-> Undefined]}
  \cup {[exists |-> TRUE, readable |-> TRUE, parses |-> TRUE, data |-> d] :
          d \in {Null, Num(5), Str(P_OK),
                 Obj([_id |-> Str(<<"r", "1">>), socialSecurityNumber |-> Str(P_OK)])}
                \cup {Arr(a) : a \in SeqsUpTo(JsonItems, MaxBatch)}}

\* the decimal digits of Number.prototype.toString for an integer n >= 0
RECURSIVE Dec(_)
Dec(n) == IF n < 10 THEN <<Chr(48 + n)>> ELSE Dec(n \div 10) \o <<Chr(48 + (n % 10))>>

\* fs.readFileSync of a path that names no file
ERR_ENOENT(absPath) ==
  <<"E", "N", "O", "E", "N", "T", ":", " ", "n", "o", " ", "s", "u", "c", "h",
    " ", "f", "i", "l", "e", " ", "o", "r", " ", "d", "i", "r", "e", "c", "t",
    "o", "r", "y", ",", " ", "o", "p", "e", "n", " ", "'">>
  \o absPath \o <<"'">>

\* fs.readFileSync of a path that holds a directory
ERR_EISDIR ==
  <<"E", "I", "S", "D", "I", "R", ":", " ", "i", "l", "l", "e", "g", "a", "l",
    " ", "o", "p", "e", "r", "a", "t", "i", "o", "n", " ", "o", "n", " ", "a",
    " ", "d", "i", "r", "e", "c", "t", "o", "r", "y", ",", " ", "r", "e", "a",
    "d">>

\* csv-parse, a record whose length is not the header's: got cells on line n
ERR_CSV(columns, got, line) ==
  <<"I", "n", "v", "a", "l", "i", "d", " ", "R", "e", "c", "o", "r", "d", " ",
    "L", "e", "n", "g", "t", "h", ":", " ", "c", "o", "l", "u", "m", "n", "s",
    " ", "l", "e", "n", "g", "t", "h", " ", "i", "s", " ">>
  \o Dec(columns) \o <<",", " ", "g", "o", "t", " ">> \o Dec(got)
  \o <<" ", "o", "n", " ", "l", "i", "n", "e", " ">> \o Dec(line)

\* for (const record of data) over a value that is not iterable
ERR_NOT_ITERABLE ==
  <<"d", "a", "t", "a", " ", "i", "s", " ", "n", "o", "t", " ", "i", "t", "e",
    "r", "a", "b", "l", "e">>

\* String.prototype.includes
Includes(str, sub) ==
  \E i \in 0..(Len(str) - Len(sub)) : SubSeq(str, i + 1, i + Len(sub)) = sub

\* an Error object: its message, and the isTtyError property inquirer sets
\* on the error of a prompt that has no terminal
Err(message) == [message |-> message, isTtyError |-> FALSE]

TXT_SIGINT == <<"S", "I", "G", "I", "N", "T">>

TXT_FORCE_CLOSED ==
  <<"U", "s", "e", "r", " ", "f", "o", "r", "c", "e", " ", "c", "l", "o", "s",
    "e", "d">>

\* the errors an inquirer prompt rejects with: the prompt was closed with
\* Ctrl+C, or (at the first prompt) there is no terminal to render it on
ERR_FORCE_CLOSED ==
  Err(TXT_FORCE_CLOSED
      \o <<" ", "t", "h", "e", " ", "p", "r", "o", "m", "p", "t", " ", "w", "i",
           "t", "h", " ">> \o TXT_SIGINT)

ERR_TTY ==
  [message |->
     <<"P", "r", "o", "m", "p", "t", " ", "c", "o", "u", "l", "d", "n", "'",
       "t", " ", "b", "e", " ", "r", "e", "n", "d", "e", "r", "e", "d", " ",
       "i", "n", " ", "t", "h", "e", " ", "c", "u", "r", "r", "e", "n", "t",
       " ", "e", "n", "v", "i", "r", "o", "n", "m", "e", "n", "t">>,
   isTtyError |-> TRUE]

\* the test of handleUnexpectedError for an interrupted prompt
IsInterrupt(err) ==
  \/ err.isTtyError
  \/ Includes(err.message, TXT_SIGINT)
  \/ Includes(err.message, TXT_FORCE_CLOSED)

\* the header lines of the CSV files
CsvHeaders ==
  {<<"_id", "socialSecurityNumber">>, <<"_id", "ssn">>, <<"socialSecurityNumber">>}

\* the data lines of the CSV files, as cells
CsvLines ==
  {<<<<"r", "1">>, P_OK>>,
   <<<<>>, P_CORRUPT>>,
   <<<<"r", "3">>, <<>>>>,
   <<<<" ", "r", "4">>, <<" ">> \o P_OK \o <<" ">>>>,
   <<<<"r", "5">>, P_NOT_HEX>>,
   <<<<"r", "6">>, P_BAD_UTF8>>,
   <<P_TWO_BLOCKS>>}

\* path.resolve of what was typed at the CSV prompt
CSV_PATH == <<"/", "d", "/", "i", "n", ".", "c", "s", "v">>

CSV_PATH_SIGINT ==
  <<"/", "S", "I", "G", "I", "N", "T", "/", "i", "n", ".", "c", "s", "v">>

\* a CSV file: one that is gone when it is read, or a header line and data
\* lines
CsvFiles ==
  {[path |-> p, exists |-> FALSE, header |-> <<>>, lines |-> <<>>] :
     p \in {CSV_PATH, CSV_PATH_SIGINT}}
  \cup {[path |-> CSV_PATH, exists |-> TRUE, header |-> h, lines |-> l] :
          h \in CsvHeaders, l \in SeqsUpTo(CsvLines, MaxBatch)}

\* csv-parse with columns: true, trim: true: one object per data line, its
\* properties named by the header; a line with another number of cells
\* than the header is an error
csvParseOk(file) == \A i \in 1..Len(file.lines) : Len(file.lines[i]) = Len(file.header)

\* the error of the first such line; the header is line 1 of the file
csvParseError(file) ==
  LET bad == CHOOSE i \in 1..Len(file.lines) :
               /\ Len(file.lines[i]) # Len(file.header)
               /\ \A j \in 1..(i - 1) : Len(file.lines[j]) = Len(file.header)
  IN Err(ERR_CSV(Len(file.header), Len(file.lines[bad]), bad + 1))

csvParse(file) ==
  [i \in 1..Len(file.lines) |->
     Obj([name \in {file.header[j] : j \in 1..Len(file.header)} |->
            Str(Trim(file.lines[i][CHOOSE j \in 1..Len(file.header) :
                                     file.header[j] = name]))])]

(***************************************************************************)
(* createSpinner (utils/spinner.js)                                        *)
(***************************************************************************)
\* the number of calls made on one spinner
MaxSpinnerCalls == 4

\* a parameter with a default value: the default stands for undefined
DefaultTo(v, d) == IF v.t = "undefined" THEN d ELSE v

\* the heavy check mark (U+2714), the variation selector 16 and two spaces
CHECK_PREFIX == <<"\\u10004", "\\u65039", " ", " ">>

\* the cross mark (U+274C) and a space
CROSS_PREFIX == <<"\\u10060", " ">>

TXT_DONE == <<"D", "o", "n", "e">>

TXT_FAILED_DEFAULT == <<"F", "a", "i", "l", "e", "d">>

\* createSpinner(text): the closure variables, and log, the lines printed
\* with the function that printed each
createSpinner(text) ==
  [text |-> DefaultTo(text, Str(<<>>)), started |-> FALSE, ended |-> FALSE,
   log |-> <<>>]

\* a start that only looks at started
start_IgnoresEnded(sp, msg) ==
  IF sp.started THEN sp
  ELSE [sp EXCEPT !.log = Append(@, [by |-> "start", line |-> DefaultTo(msg, sp.text).s]),
                  !.started = TRUE]

\* start(msg = text)
start(sp, msg) ==
  IF sp.started \/ sp.ended THEN sp
  ELSE [sp EXCEPT !.log = Append(@, [by |-> "start", line |-> DefaultTo(msg, sp.text).s]),
                  !.started = TRUE]

\* succeed(msg = "Done")
succeed(sp, msg) ==
  IF sp.ended THEN sp
  ELSE [sp EXCEPT !.log = Append(@, [by |-> "succeed",
                                     line |-> CHECK_PREFIX \o DefaultTo(msg, Str(TXT_DONE)).s]),
                  !.ended = TRUE]

\* fail(msg = "Failed")
fail(sp, msg) ==
  IF sp.ended THEN sp
  ELSE [sp EXCEPT !.log = Append(@, [by |-> "fail",
                                     line |-> CROSS_PREFIX \o DefaultTo(msg, Str(TXT_FAILED_DEFAULT)).s]),
                  !.ended = TRUE]

\* stop()
stop(sp) == [sp EXCEPT !.ended = TRUE]

\* the arguments given: none, the empty string, a text
SpinnerArgs == {Undefined, Str(<<>>), Str(<<"W", "o", "r", "k">>)}

\* no spinner made; n counts the calls made on the spinner
NoSpinner == [made |-> FALSE, n |-> 0, obj |-> createSpinner(Undefined)]

\* const sp = createSpinner(text)
newSpinner ==
  /\ ~api.made
  /\ \E a \in SpinnerArgs : api' = [made |-> TRUE, n |-> 0, obj |-> createSpinner(a)]
  /\ UNCHANGED <<sessionVars, unit>>

SpinnerCallable == api.made /\ api.n < MaxSpinnerCalls

\* sp.start(msg)
callStart ==
  /\ SpinnerCallable
  /\ \E a \in SpinnerArgs : api' = [api EXCEPT !.obj = start(@, a), !.n = @ + 1]
  /\ UNCHANGED <<sessionVars, unit>>

\* sp.succeed(msg)
callSucceed ==
  /\ SpinnerCallable
  /\ \E a \in SpinnerArgs : api' = [api EXCEPT !.obj = succeed(@, a), !.n = @ + 1]
  /\ UNCHANGED <<sessionVars, unit>>

\* sp.fail(msg)
callFail ==
  /\ SpinnerCallable
  /\ \E a \in SpinnerArgs : api' = [api EXCEPT !.obj = fail(@, a), !.n = @ + 1]
  /\ UNCHANGED <<sessionVars, unit>>

\* sp.stop()
callStop ==
  /\ SpinnerCallable
  /\ api' = [api EXCEPT !.obj = stop(@), !.n = @ + 1]
  /\ UNCHANGED <<sessionVars, unit>>

(***************************************************************************)
(* The session: index.js start() and the three flows                       *)
(***************************************************************************)
NoTable == [shown |-> FALSE, rows |-> <<>>]

NoSummary == [printed |-> FALSE, total |-> 0, success |-> 0, failed |-> 0]

\* format is what was chosen at the prompt of exportResultsToFile
NoExport == [called |-> FALSE, data |-> <<>>, format |-> ""]

ERR_NULL_ID ==
  <<"C", "a", "n", "n", "o", "t", " ", "r", "e", "a", "d", " ", "p", "r", "o",
    "p", "e", "r", "t", "i", "e", "s", " ", "o", "f", " ", "n", "u", "l", "l",
    " ", "(", "r", "e", "a", "d", "i", "n", "g", " ", "'", "_", "i", "d", "'",
    ")">>

ERR_NO_HEADERS ==
  <<"C", "a", "n", "n", "o", "t", " ", "c", "o", "n", "v", "e", "r", "t", " ",
    "u", "n", "d", "e", "f", "i", "n", "e", "d", " ", "o", "r", " ", "n", "u",
    "l", "l", " ", "t", "o", " ", "o", "b", "j", "e", "c", "t">>

SessionInit ==
  /\ pc = "askForCredentials"
  /\ credentials = [key |-> <<>>, iv |-> <<>>]
  /\ encdec = NoCtx
  /\ exitCode = -1
  /\ exitPending = FALSE
  /\ lastError = <<>>
  /\ flow = "none"
  /\ flowEnd = "none"
  /\ inputFile = NoFile
  /\ keyPairs = <<>>
  /\ records = <<>>
  /\ cursor = 0
  /\ results = <<>>
  /\ success = 0
  /\ failed = 0
  /\ calls = <<>>
  /\ spinner = "none"
  /\ table = NoTable
  /\ summary = NoSummary
  /\ exportArg = NoExport
  /\ written = "none"
  /\ chalkLevel \in ChalkLevels

Init == SessionInit /\ unit = UnitIdle /\ api = NoSpinner

InitUnit == SessionInit /\ UnitInit /\ api = NoSpinner

startVars == <<credentials, encdec>>

errorVars == <<exitCode, exitPending, lastError>>

loopVars == <<records, cursor, results, success, failed, calls>>

outputVars == <<table, summary, exportArg, written>>

\* error.js handleUnexpectedError(err), called at position pc; the caller
\* goes on at next unless the process exits
handleUnexpectedError(err, next) ==
  IF IsInterrupt(err)
  THEN /\ exitCode' = 0
       /\ pc' = "exited"
       /\ UNCHANGED <<exitPending, lastError>>
  ELSE /\ lastError' = err.message
       /\ exitPending' = TRUE
       /\ pc' = next
       /\ UNCHANGED exitCode

\* the callback of rl.question in handleUnexpectedError: Enter is pressed
PressEnter ==
  /\ exitPending
  /\ exitCode = -1
  /\ exitCode' = 1
  /\ pc' = "exited"
  /\ UNCHANGED <<startVars, exitPending, lastError, flow, flowEnd, inputFile,
                 keyPairs, loopVars, spinner, outputVars, unit, api, chalkLevel>>

\* index.js process.on("SIGINT"): the process exits with code 0
sigint ==
  /\ exitCode = -1
  /\ exitCode' = 0
  /\ pc' = "exited"
  /\ UNCHANGED <<startVars, exitPending, lastError, flow, flowEnd, inputFile,
                 keyPairs, loopVars, spinner, outputVars, unit, api, chalkLevel>>

\* where control is inside inquirer.prompt
PromptPositions ==
  {"askForCredentials", "mainMenu", "promptJsonFile", "promptCsvFile",
   "promptEncryptedKey", "postAddActionMenu", "postDecryptActionMenu", "export"}

\* inquirer.prompt rejects: the catch of start(), or for the prompt of
\* exportResultsToFile its own catch, hands the error to handleUnexpectedError
promptRejected ==
  /\ pc \in PromptPositions
  /\ \E err \in {ERR_FORCE_CLOSED} \cup (IF pc = "askForCredentials" THEN {ERR_TTY} ELSE {}) :
       handleUnexpectedError(err, "startReturned")
  /\ UNCHANGED <<startVars, flow, flowEnd, inputFile, keyPairs, loopVars, spinner,
                 outputVars, unit, api, chalkLevel>>

\* prompt.js askForCredentials: each prompt returns what was typed once its
\* validator accepts it
keyValidate(input) == IsHexOfLen(Trim(input), KEY_HEX_LEN)

ivValidate(input) == IsHexOfLen(Trim(input), IV_HEX_LEN)

askForCredentials ==
  /\ pc = "askForCredentials"
  /\ \E k \in TypedKeys, v \in TypedIvs :
       /\ keyValidate(k)
       /\ ivValidate(v)
       /\ credentials' = [key |-> k, iv |-> v]
  /\ pc' = "newEncDec"
  /\ UNCHANGED <<encdec, errorVars, flow, flowEnd, inputFile, keyPairs, loopVars,
                 spinner, outputVars, unit, api, chalkLevel>>

\* index.js: encdec = new EncDec(key, iv), and the catch of start()
newEncDec ==
  /\ pc = "newEncDec"
  /\ LET r == EncDec(credentials.key, credentials.iv)
     IN IF r.ok
        THEN /\ encdec' = r.this
             /\ pc' = "mainMenu"
             /\ UNCHANGED errorVars
        ELSE /\ handleUnexpectedError(Err(r.error), "startReturned")
             /\ UNCHANGED encdec
  /\ UNCHANGED <<credentials, flow, flowEnd, inputFile, keyPairs, loopVars,
                 spinner, outputVars, unit, api, chalkLevel>>

\* what every entry of a flow starts from
FreshFlow ==
  /\ keyPairs' = <<>>
  /\ cursor' = 0
  /\ results' = <<>>
  /\ success' = 0
  /\ failed' = 0
  /\ calls' = <<>>
  /\ table' = NoTable
  /\ summary' = NoSummary
  /\ exportArg' = NoExport
  /\ written' = "none"

\* main menu "add": handleDecryptionFlow starts
menuAdd ==
  /\ pc = "mainMenu"
  /\ flow' = "manual"
  /\ flowEnd' = "running"
  /\ inputFile' = NoFile
  /\ records' = <<>>
  /\ spinner' = "none"
  /\ FreshFlow
  /\ pc' = "promptEncryptedKey"
  /\ UNCHANGED <<startVars, errorVars, unit, api, chalkLevel>>

\* a menu entry that makes an instance of its own for the flow
menuImport_OwnContext ==
  /\ pc = "mainMenu"
  /\ flow' = "json"
  /\ flowEnd' = "running"
  /\ inputFile' = NoFile
  /\ records' = <<>>
  /\ spinner' = "none"
  /\ FreshFlow
  /\ pc' = "promptJsonFile"
  /\ encdec' = [encdec EXCEPT !.key = HexParse(WRONG_KEY)]
  /\ UNCHANGED <<credentials, errorVars, unit, api, chalkLevel>>

\* main menu "import"
menuImport ==
  /\ pc = "mainMenu"
  /\ flow' = "json"
  /\ flowEnd' = "running"
  /\ inputFile' = NoFile
  /\ records' = <<>>
  /\ spinner' = "none"
  /\ FreshFlow
  /\ pc' = "promptJsonFile"
  /\ UNCHANGED <<startVars, errorVars, unit, api, chalkLevel>>

\* a flow that starts its loop on any parsed root and throws on a root that
\* cannot be iterated
jsonOpen_NoArrayTest ==
  /\ pc = "promptJsonFile"
  /\ \E f \in JsonFiles :
       /\ inputFile' = f
       /\ IF ~f.exists
          THEN /\ flowEnd' = "notFound" /\ records' = <<>> /\ spinner' = "none"
               /\ pc' = "mainMenu" /\ UNCHANGED errorVars
          ELSE IF ~f.readable
          THEN /\ handleUnexpectedError(Err(ERR_EISDIR), "mainMenu")
               /\ flowEnd' = "threw" /\ records' = <<>> /\ spinner' = "none"
          ELSE IF ~f.parses
          THEN /\ flowEnd' = "invalidJson" /\ records' = <<>> /\ spinner' = "none"
               /\ pc' = "mainMenu" /\ UNCHANGED errorVars
          ELSE IF f.data.t # "array"
          THEN /\ handleUnexpectedError(Err(ERR_NOT_ITERABLE), "mainMenu")
               /\ flowEnd' = "threw" /\ records' = <<>> /\ spinner' = "spinning"
          ELSE /\ flowEnd' = "running" /\ records' = f.data.items
               /\ spinner' = "spinning" /\ pc' = "jsonLoop" /\ UNCHANGED errorVars
  /\ UNCHANGED <<startVars, flow, keyPairs, cursor, results, success,
                 failed, calls, outputVars, unit, api, chalkLevel>>

\* promptJsonFile, then handleJsonImportFlow up to its loop: the file is
\* looked up, read and parsed, and the root is tested for an array; an
\* error of fs.readFileSync goes to the catch of the flow
jsonOpen ==
  /\ pc = "promptJsonFile"
  /\ \E f \in JsonFiles :
       /\ inputFile' = f
       /\ IF ~f.exists
          THEN /\ flowEnd' = "notFound" /\ records' = <<>> /\ spinner' = "none"
               /\ pc' = "mainMenu" /\ UNCHANGED errorVars
          ELSE IF ~f.readable
          THEN /\ handleUnexpectedError(Err(ERR_EISDIR), "mainMenu")
               /\ flowEnd' = "threw" /\ records' = <<>> /\ spinner' = "none"
          ELSE IF ~f.parses
          THEN /\ flowEnd' = "invalidJson" /\ records' = <<>> /\ spinner' = "none"
               /\ pc' = "mainMenu" /\ UNCHANGED errorVars
          ELSE IF f.data.t # "array"
          THEN /\ flowEnd' = "notArray" /\ records' = <<>> /\ spinner' = "none"
               /\ pc' = "mainMenu" /\ UNCHANGED errorVars
          ELSE /\ flowEnd' = "running" /\ records' = f.data.items
               /\ spinner' = "spinning" /\ pc' = "jsonLoop" /\ UNCHANGED errorVars
  /\ UNCHANGED <<startVars, flow, keyPairs, cursor, results, success,
                 failed, calls, outputVars, unit, api, chalkLevel>>

\* an iteration whose else branch does not count the record
pushOutcome_InvalidUncounted(id, o) ==
  /\ success' = IF o.ok THEN success + 1 ELSE success
  /\ failed' = IF o.ok \/ o.called = <<>> THEN failed ELSE failed + 1
  /\ calls' = calls \o o.called
  /\ results' = Append(results, [_id |-> id, SSN |-> o.dec])
  /\ cursor' = cursor + 1

\* an iteration that puts the new outcome in front of the earlier ones
pushOutcome_Unshift(id, o) ==
  /\ success' = IF o.ok THEN success + 1 ELSE success
  /\ failed' = IF o.ok THEN failed ELSE failed + 1
  /\ calls' = calls \o o.called
  /\ results' = <<[_id |-> id, SSN |-> o.dec]>> \o results
  /\ cursor' = cursor + 1

\* the end of an iteration of an import loop on outcome o: the counters and
\* results.push({ _id: id, SSN: dec })
pushOutcome(id, o) ==
  /\ success' = IF o.ok THEN success + 1 ELSE success
  /\ failed' = IF o.ok THEN failed ELSE failed + 1
  /\ calls' = calls \o o.called
  /\ results' = Append(results, [_id |-> id, SSN |-> o.dec])
  /\ cursor' = cursor + 1

\* handleJsonImportFlow: one iteration of for (const record of data)
jsonRecord ==
  /\ pc = "jsonLoop"
  /\ cursor < Len(records)
  /\ LET record == records[cursor + 1]
     IN IF ~CanRead(record)
        THEN /\ handleUnexpectedError(Err(ERR_NULL_ID), "mainMenu")
             /\ flowEnd' = "threw"
             /\ UNCHANGED loopVars
        ELSE /\ pushOutcome(formatId(Get(record, "_id")),
                            importOutcome(encdec, Get(record, "socialSecurityNumber"),
                                          chalk_red(TXT_INVALID_OR_MISSING),
                                          chalk_red(TXT_DECRYPTION_FAILED)))
             /\ UNCHANGED <<pc, errorVars, flowEnd, records>>
  /\ UNCHANGED <<startVars, flow, inputFile, keyPairs, spinner, outputVars, unit, api, chalkLevel>>

\* an end of the flow that shows and exports whatever the loop left, an
\* empty list included
jsonFinish_NoEmptyCheck ==
  /\ pc = "jsonLoop"
  /\ cursor = Len(records)
  /\ spinner' = "succeeded"
  /\ table' = [shown |-> TRUE, rows |-> results]
  /\ summary' = [printed |-> TRUE, total |-> Len(results),
                 success |-> success, failed |-> failed]
  /\ exportArg' = [called |-> TRUE, data |-> results, format |-> ""]
  /\ pc' = "export"
  /\ UNCHANGED <<startVars, errorVars, flow, flowEnd, inputFile, keyPairs, loopVars,
                 written, unit, api, chalkLevel>>

\* handleJsonImportFlow after its loop: spinner, empty check, table, summary
\* and the call of exportResultsToFile
jsonFinish ==
  /\ pc = "jsonLoop"
  /\ cursor = Len(records)
  /\ spinner' = "succeeded"
  /\ IF Len(results) = 0
     THEN /\ flowEnd' = "empty"
          /\ pc' = "mainMenu"
          /\ UNCHANGED <<table, summary, exportArg>>
     ELSE /\ table' = [shown |-> TRUE, rows |-> results]
          /\ summary' = [printed |-> TRUE, total |-> Len(results),
                         success |-> success, failed |-> failed]
          /\ exportArg' = [called |-> TRUE, data |-> results, format |-> ""]
          /\ pc' = "export"
          /\ UNCHANGED flowEnd
  /\ UNCHANGED <<startVars, errorVars, flow, inputFile, keyPairs, loopVars,
                 written, unit, api, chalkLevel>>

\* main menu "importCsv"
menuImportCsv ==
  /\ pc = "mainMenu"
  /\ flow' = "csv"
  /\ flowEnd' = "running"
  /\ inputFile' = NoFile
  /\ records' = <<>>
  /\ spinner' = "none"
  /\ FreshFlow
  /\ pc' = "promptCsvFile"
  /\ UNCHANGED <<startVars, errorVars, unit, api, chalkLevel>>

\* promptCsvFile, then handleCsvImportFlow up to its loop: the file is read
\* and parsed
csvOpen ==
  /\ pc = "promptCsvFile"
  /\ \E f \in CsvFiles :
       /\ inputFile' = f
       /\ IF ~f.exists
          THEN /\ handleUnexpectedError(Err(ERR_ENOENT(f.path)), "mainMenu")
               /\ flowEnd' = "threw"
               /\ records' = <<>>
               /\ spinner' = "none"
          ELSE IF ~csvParseOk(f)
          THEN /\ handleUnexpectedError(csvParseError(f), "mainMenu")
               /\ flowEnd' = "threw"
               /\ records' = <<>>
               /\ spinner' = "none"
          ELSE /\ records' = csvParse(f)
               /\ flowEnd' = "running"
               /\ spinner' = "spinning"
               /\ pc' = "csvLoop"
               /\ UNCHANGED errorVars
  /\ UNCHANGED <<startVars, flow, keyPairs, cursor, results, success, failed, calls,
                 outputVars, unit, api, chalkLevel>>

\* handleCsvImportFlow: one iteration of for (const row of records)
csvRecord ==
  /\ pc = "csvLoop"
  /\ cursor < Len(records)
  /\ LET row == records[cursor + 1]
     IN pushOutcome(csvId(Get(row, "_id")),
                    importOutcome(encdec, Get(row, "socialSecurityNumber"),
                                  chalk_red(TXT_INVALID), chalk_red(TXT_FAILED)))
  /\ UNCHANGED <<pc, startVars, errorVars, flow, flowEnd, inputFile, keyPairs,
                 records, spinner, outputVars, unit, api, chalkLevel>>

\* handleCsvImportFlow after its loop
csvFinish ==
  /\ pc = "csvLoop"
  /\ cursor = Len(records)
  /\ spinner' = "succeeded"
  /\ IF Len(results) = 0
     THEN /\ flowEnd' = "empty"
          /\ pc' = "mainMenu"
          /\ UNCHANGED <<table, summary, exportArg>>
     ELSE /\ table' = [shown |-> TRUE, rows |-> results]
          /\ summary' = [printed |-> TRUE, total |-> Len(results),
                         success |-> success, failed |-> failed]
          /\ exportArg' = [called |-> TRUE, data |-> results, format |-> ""]
          /\ pc' = "export"
          /\ UNCHANGED flowEnd
  /\ UNCHANGED <<startVars, errorVars, flow, inputFile, keyPairs, loopVars,
                 written, unit, api, chalkLevel>>

\* prompt.js promptEncryptedKey and the push of the new entry
encryptedKeyValidate(input) == Trim(input) # <<>>

promptEncryptedKey ==
  /\ pc = "promptEncryptedKey"
  /\ \E typed \in ManualTyped :
       /\ encryptedKeyValidate(typed)
       /\ keyPairs' = Append(keyPairs, [Encrypted |-> typed,
                                        Decrypted |-> chalk_yellow(TXT_NOT_DECRYPTED)])
  /\ pc' = "postAddActionMenu"
  /\ UNCHANGED <<startVars, errorVars, flow, flowEnd, inputFile, loopVars, spinner,
                 outputVars, unit, api, chalkLevel>>

\* postAddActionMenu: add another entry, decrypt all, or back to the main menu
postAddActionMenu ==
  /\ pc = "postAddActionMenu"
  /\ \E action \in {"add", "decrypt", "back"} :
       CASE action = "add" ->
              /\ Len(keyPairs) < MaxManual
              /\ pc' = "promptEncryptedKey"
              /\ UNCHANGED <<flowEnd, loopVars, spinner>>
         [] action = "decrypt" ->
              /\ pc' = "manualLoop"
              /\ spinner' = "spinning"
              /\ success' = 0
              /\ failed' = 0
              /\ cursor' = 0
              /\ calls' = <<>>
              /\ UNCHANGED <<flowEnd, records, results>>
         [] action = "back" ->
              /\ pc' = "mainMenu"
              /\ flowEnd' = "returned"
              /\ UNCHANGED <<loopVars, spinner>>
  /\ UNCHANGED <<startVars, errorVars, flow, inputFile, keyPairs, outputVars, unit,
                 api, chalkLevel>>

\* the end of an iteration of the manual loop on outcome o: entry.Decrypted
\* and the counters
setOutcome(o) ==
  /\ keyPairs' = [keyPairs EXCEPT ![cursor + 1].Decrypted = o.dec]
  /\ success' = IF o.ok THEN success + 1 ELSE success
  /\ failed' = IF o.ok THEN failed ELSE failed + 1
  /\ calls' = calls \o o.called
  /\ cursor' = cursor + 1

\* handleDecryptionFlow: one iteration of for (let entry of keyPairs)
manualEntry ==
  /\ pc = "manualLoop"
  /\ cursor < Len(keyPairs)
  /\ setOutcome(manualOutcome(encdec, keyPairs[cursor + 1].Encrypted))
  /\ UNCHANGED <<pc, startVars, errorVars, flow, flowEnd, inputFile, records,
                 results, spinner, outputVars, unit, api, chalkLevel>>

\* handleDecryptionFlow after its loop: spinner, table, summary and, for a
\* non-empty list, the call of exportResultsToFile
manualFinish ==
  /\ pc = "manualLoop"
  /\ cursor = Len(keyPairs)
  /\ spinner' = "succeeded"
  /\ table' = [shown |-> TRUE, rows |-> keyPairs]
  /\ summary' = [printed |-> TRUE, total |-> Len(keyPairs),
                 success |-> success, failed |-> failed]
  /\ IF Len(keyPairs) # 0
     THEN /\ exportArg' = [called |-> TRUE, data |-> keyPairs, format |-> ""]
          /\ pc' = "export"
     ELSE /\ pc' = "postDecryptActionMenu"
          /\ UNCHANGED exportArg
  /\ written' = "none"
  /\ UNCHANGED <<startVars, errorVars, flow, flowEnd, inputFile, keyPairs, loopVars,
                 unit, api, chalkLevel>>

\* new Date().toISOString() at the export
ISO_NOW ==
  <<"2", "0", "2", "6", "-", "0", "1", "-", "0", "2", "T", "0", "3", ":", "0",
    "4", ":", "0", "5", ".", "6", "7", "8", "Z">>

\* str.replace(/[:.]/g, "-")
ReplaceColonsAndDots(str) ==
  [i \in 1..Len(str) |-> IF str[i] \in {":", "."} THEN "-" ELSE str[i]]

\* format.toLowerCase() of the two formats that are written
FormatLower(format) ==
  IF format = "JSON" THEN <<"j", "s", "o", "n">> ELSE <<"c", "s", "v">>

\* process.cwd(): the working directories of the sessions
ExportDirs == {<<"/", "d">>, <<"/", "S", "I", "G", "I", "N", "T">>}

\* path.join(process.cwd(), filename) of exportResultsToFile
ExportPath(dir, format) ==
  dir \o <<"/">> \o
  <<"d", "e", "c", "r", "y", "p", "t", "i", "o", "n", "_", "r", "e", "s", "u",
    "l", "t", "s", "_">>
  \o ReplaceColonsAndDots(ISO_NOW) \o <<".">> \o FormatLower(format)

\* exporter.js exportResultsToFile(data): the format prompt, then the file;
\* fs.writeFileSync writes it or throws (the directory is gone), and every
\* error goes to the catch
exportResultsToFile ==
  /\ pc = "export"
  /\ \E format \in {"JSON", "CSV", "Cancel"} :
       LET next == IF flow = "manual" THEN "postDecryptActionMenu" ELSE "mainMenu"
       IN /\ exportArg' = [exportArg EXCEPT !.format = format]
          /\ IF format = "Cancel"
             THEN /\ pc' = next
                  /\ UNCHANGED <<written, errorVars>>
             ELSE IF format = "CSV" /\ Len(exportArg.data) = 0
             THEN /\ handleUnexpectedError(Err(ERR_NO_HEADERS), next)
                  /\ UNCHANGED written
             ELSE \E dir \in ExportDirs, wrote \in BOOLEAN :
                    IF wrote
                    THEN /\ written' = IF format = "JSON" THEN "json" ELSE "csv"
                         /\ pc' = next
                         /\ UNCHANGED errorVars
                    ELSE /\ handleUnexpectedError(Err(ERR_ENOENT(ExportPath(dir, format))),
                                                  next)
                         /\ UNCHANGED written
  /\ flowEnd' = IF flow = "manual" \/ pc' = "exited" THEN flowEnd ELSE "returned"
  /\ UNCHANGED <<startVars, flow, inputFile, keyPairs, loopVars, spinner, table,
                 summary, unit, api, chalkLevel>>

\* postDecryptActionMenu: add another entry or back to the main menu
postDecryptActionMenu ==
  /\ pc = "postDecryptActionMenu"
  /\ \E action \in {"add", "back"} :
       IF action = "add"
       THEN /\ Len(keyPairs) < MaxManual
            /\ pc' = "promptEncryptedKey"
            /\ UNCHANGED flowEnd
       ELSE /\ pc' = "mainMenu"
            /\ flowEnd' = "returned"
  /\ UNCHANGED <<startVars, errorVars, flow, inputFile, keyPairs, loopVars, spinner,
                 outputVars, unit, api, chalkLevel>>

\* main menu "exit": the loop ends and start() returns; the process ends
\* unless handleUnexpectedError still waits for Enter
menuExit ==
  /\ pc = "mainMenu"
  /\ IF exitPending
     THEN pc' = "startReturned" /\ UNCHANGED exitCode
     ELSE pc' = "exited" /\ exitCode' = 0
  /\ UNCHANGED <<startVars, exitPending, lastError, flow, flowEnd, inputFile,
                 keyPairs, loopVars, spinner, outputVars, unit, api, chalkLevel>>

Next ==
  \/ askForCredentials
  \/ newEncDec
  \/ menuAdd
  \/ promptEncryptedKey
  \/ postAddActionMenu
  \/ manualEntry
  \/ manualFinish
  \/ postDecryptActionMenu
  \/ menuImport
  \/ jsonOpen
  \/ jsonRecord
  \/ jsonFinish
  \/ menuImportCsv
  \/ csvOpen
  \/ csvRecord
  \/ csvFinish
  \/ exportResultsToFile
  \/ menuExit
  \/ promptRejected
  \/ PressEnter
  \/ sigint

Spec == Init /\ [][Next]_vars

NextUnit == UnitNew \/ UnitDecrypt

SpecUnit == InitUnit /\ [][NextUnit]_vars

InitCalls == SessionInit /\ UnitInitCalls /\ api = NoSpinner

NextCalls == UnitNew \/ UnitEncrypt \/ UnitHash \/ UnitDecryptAgain

SpecCalls == InitCalls /\ [][NextCalls]_vars

NextSpinner == newSpinner \/ callStart \/ callSucceed \/ callFail \/ callStop

SpecSpinner == Init /\ [][NextSpinner]_vars

(***************************************************************************)
(* Properties of the class used directly (SpecUnit)                        *)
(***************************************************************************)
\* the hexadecimal digits, in either case
HexAlphabet ==
  {"0", "1", "2", "3", "4", "5", "6", "7", "8", "9",
   "a", "b", "c", "d", "e", "f", "A", "B", "C", "D", "E", "F"}

AllHex(s) == \A i \in 1..Len(s) : s[i] \in HexAlphabet

Constructed == unit.at \in {"made", "threw", "called", "encrypted", "hashed"}

\* C6: new EncDec(keyHex, ivHex) succeeds exactly when keyHex is 64
\* hexadecimal characters and ivHex is 32; otherwise it throws an error that
\* names the offending parameter, and the key is tested before the IV.
C6_ConstructionValidation ==
  Constructed =>
    LET keyGood == Len(unit.secretKeyHex) = 64 /\ AllHex(unit.secretKeyHex)
        ivGood == Len(unit.ivHex) = 32 /\ AllHex(unit.ivHex)
    IN /\ unit.made.ok <=> (keyGood /\ ivGood)
       /\ unit.made.ok <=> unit.at # "threw"
       /\ ~keyGood => unit.made.error = ERR_KEY
       /\ keyGood /\ ~ivGood => unit.made.error = ERR_IV

\* C6 happens: a bad key with a bad IV is refused with the key's error
C6_Witness ==
  /\ unit.at = "threw"
  /\ ~AllHex(unit.secretKeyHex)
  /\ Len(unit.ivHex) # 32
  /\ unit.made.error = ERR_KEY

\* C8: decryptPayload throws the malformed-ciphertext error for every string
\* that has a character outside the hexadecimal digits or whose length is
\* no multiple of 32, and no cipher call is made before it throws.
C8_MalformedRejected ==
  unit.at = "called" /\ (~AllHex(unit.cipherHex) \/ Len(unit.cipherHex) % 32 # 0) =>
    /\ ~unit.out.ok
    /\ unit.out.error = ERR_SHAPE
    /\ unit.out.lib = <<>>

\* C8 happens: a string of 32 characters, one of them no hexadecimal digit,
\* was refused
C8_Witness ==
  /\ unit.at = "called"
  /\ Len(unit.cipherHex) = 32
  /\ ~AllHex(unit.cipherHex)
  /\ unit.out.error = ERR_SHAPE

\* C9 as stated: every all-hexadecimal cipherHex whose length is a
\* non-negative multiple of 32 (0, 32, 64, ...) passes the shape check.
C9_AlignedPasses_Stated ==
  unit.at = "called" /\ AllHex(unit.cipherHex) /\ Len(unit.cipherHex) % 32 = 0 =>
    unit.out.error # ERR_SHAPE

\* C9, amended: every all-hexadecimal cipherHex whose length is a positive
\* multiple of 32 (32, 64, ...) passes the shape check and reaches the cipher.
C9_AlignedPasses ==
  unit.at = "called" /\ AllHex(unit.cipherHex) /\ Len(unit.cipherHex) % 32 = 0
    /\ Len(unit.cipherHex) > 0 =>
      /\ unit.out.error # ERR_SHAPE
      /\ unit.out.lib # <<>>

\* C9 happens: a payload of two blocks passed the shape check
C9_Witness ==
  /\ unit.at = "called"
  /\ AllHex(unit.cipherHex)
  /\ Len(unit.cipherHex) = 64
  /\ unit.out.lib # <<>>

\* the payload, decrypted block by block under the instance's key and IV,
\* does not end in a PKCS#7 pad: n bytes of value n, n in 1..16
InvalidPad(this, cipherHex) ==
  LET plain == CbcDecrypt(ExpandKey(this.key), this.iv, HexParse(cipherHex))
      n == plain[Len(plain)]
  IN ~(n \in 1..16 /\ \A i \in (Len(plain) - n + 1)..Len(plain) : plain[i] = n)

\* C10: when the decrypted bytes do not end in a valid PKCS#7 pad,
\* decryptPayload fails and returns no plaintext.
C10_BadPadFails ==
  unit.at = "called" /\ unit.out.lib # <<>> /\ unit.out.ok =>
    ~InvalidPad(unit.made.this, unit.cipherHex)

(***************************************************************************)
(* Properties of the batch loops in the session (Spec)                     *)
(***************************************************************************)
SsnOf(record) == Get(record, "socialSecurityNumber")

\* the record has a socialSecurityNumber that is a non-empty string
HasCiphertext(record) == SsnOf(record).t = "string" /\ SsnOf(record).s # <<>>

InvalidMarker == IF flow = "json" THEN TXT_INVALID_OR_MISSING ELSE TXT_INVALID

FailedMarker == IF flow = "json" THEN TXT_DECRYPTION_FAILED ELSE TXT_FAILED

IdOf(record) ==
  IF flow = "json" THEN formatId(Get(record, "_id")) ELSE csvId(Get(record, "_id"))

InImport == flow \in {"json", "csv"}

\* the import flow has not left its loop yet, or the process was ended
ImportLooping ==
  pc \in {"promptJsonFile", "jsonLoop", "promptCsvFile", "csvLoop", "exited"}

\* C1: a batch of N records ends with N outcomes: no record, a null or
\* another non-object element included, keeps the records after it from
\* being processed.
C1_EveryRecordAnOutcome ==
  InImport /\ ~ImportLooping =>
    /\ Len(results) = Len(records)
    /\ flowEnd # "threw" \/ records = <<>>

\* C2: in the three loops success + failed is the number of records
\* processed so far; the summary prints success + failed = total = the
\* number of outcomes displayed.
C2_SummaryAccounting ==
  /\ success + failed = cursor
  /\ InImport => Len(results) = cursor
  /\ summary.printed =>
       /\ summary.success + summary.failed = summary.total
       /\ summary.total = Len(table.rows)
  /\ pc = "export" =>
       /\ summary.printed
       /\ summary.success = success
       /\ summary.failed = failed
       /\ summary.total = cursor

\* C2 happens: a summary with records of both kinds was printed
C2_Witness ==
  /\ summary.printed
  /\ summary.success >= 1
  /\ summary.failed >= 1
  /\ summary.total = MaxBatch

\* the step is an iteration of the running loop, not the exit of the process
LoopStep(at, n) == pc = at /\ cursor < n /\ pc' # "exited"

\* C3: an iteration on a record whose decryptPayload call throws records the
\* flow's failed marker as its outcome, adds one to failed, leaves success
\* and the earlier outcomes as they are, and the loop goes on.
C3_ThrowSwallowed ==
  [][/\ /\ InImport
        /\ LoopStep(IF flow = "json" THEN "jsonLoop" ELSE "csvLoop", Len(records))
        /\ CanRead(records[cursor + 1])
        /\ HasCiphertext(records[cursor + 1])
        /\ ~Decrypt(encdec, SsnOf(records[cursor + 1]).s).ok
        => /\ results' = Append(results, [_id |-> IdOf(records[cursor + 1]),
                                          SSN |-> chalk_red(FailedMarker)])
           /\ failed' = failed + 1
           /\ success' = success
           /\ cursor' = cursor + 1
           /\ pc' = pc
     /\ /\ LoopStep("manualLoop", Len(keyPairs))
        /\ ~Decrypt(encdec, keyPairs[cursor + 1].Encrypted).ok
        => /\ keyPairs' = [keyPairs EXCEPT ![cursor + 1].Decrypted =
                                             chalk_red(TXT_FAILED_TO_DECRYPT)]
           /\ failed' = failed + 1
           /\ success' = success
           /\ cursor' = cursor + 1
           /\ pc' = pc]_vars

\* C3 happens: a record that failed to decrypt is followed by one decrypted
C3_Witness ==
  /\ flow = "json"
  /\ Len(results) = 2
  /\ results[1].SSN = chalk_red(TXT_DECRYPTION_FAILED)
  /\ results[2].SSN = <<"1", "2", "3", "-", "4", "5", "-", "6", "7", "8", "9">>
  /\ failed = 1
  /\ success = 1

\* the ciphertexts of the first k records that have one, in order
RECURSIVE CiphertextsOf(_, _)
CiphertextsOf(batch, k) ==
  IF k = 0 THEN <<>>
  ELSE CiphertextsOf(batch, k - 1)
       \o (IF HasCiphertext(batch[k]) THEN <<SsnOf(batch[k]).s>> ELSE <<>>)

\* C4: in the JSON and CSV loops a record whose socialSecurityNumber is
\* absent, no string or empty gets the invalid marker, is counted as failed,
\* and decryptPayload is not called for it; for every other record it is
\* called exactly once.
C4_ShortCircuit ==
  InImport =>
    /\ calls = CiphertextsOf(records, cursor)
    /\ \A i \in 1..Len(results) :
         ~HasCiphertext(records[i]) => results[i].SSN = chalk_red(InvalidMarker)
    /\ failed = Cardinality({i \in 1..Len(results) :
                               \/ ~HasCiphertext(records[i])
                               \/ ~Decrypt(encdec, SsnOf(records[i]).s).ok})

\* C4 happens: of two records one had no ciphertext, and one call was made
C4_Witness ==
  /\ InImport
  /\ Len(results) = 2
  /\ ~HasCiphertext(records[1])
  /\ SsnOf(records[1]) = Str(<<>>)
  /\ HasCiphertext(records[2])
  /\ Len(calls) = 1

\* C5: the i-th outcome belongs to the i-th record, in the results, in the
\* table displayed and in the data passed to the export.
C5_OrderPreserved ==
  /\ InImport =>
       /\ \A i \in 1..Len(results) :
            /\ results[i]._id = IdOf(records[i])
            /\ results[i].SSN =
                 importOutcome(encdec, SsnOf(records[i]), chalk_red(InvalidMarker),
                               chalk_red(FailedMarker)).dec
       /\ table.shown => table.rows = results
       /\ exportArg.called => exportArg.data = results
  /\ flow = "manual" /\ table.shown =>
       /\ \A i \in 1..Len(table.rows) :
            /\ table.rows[i].Encrypted = keyPairs[i].Encrypted
            /\ table.rows[i].Decrypted =
                 manualOutcome(encdec, keyPairs[i].Encrypted).dec
       /\ exportArg.called /\ exportArg.data = table.rows

\* C5 happens: two records with different outcomes were displayed and
\* passed to the export
C5_Witness ==
  /\ InImport
  /\ exportArg.called
  /\ Len(exportArg.data) = 2
  /\ exportArg.data[1].SSN # exportArg.data[2].SSN
  /\ exportArg.data[1]._id # exportArg.data[2]._id
  /\ table.rows = exportArg.data

\* C7: every pair of values the credential prompts accept leads to a
\* constructed cipher instance.
C7_AcceptedCredentialsConstruct ==
  pc \notin {"askForCredentials", "newEncDec", "exited"} =>
    /\ encdec # NoCtx
    /\ lastError \notin {ERR_KEY, ERR_IV}

\* a text holds a surrogate code unit that is not part of a pair
UnpairedSurrogate(s) ==
  \E i \in 1..Len(s) :
    LET u == CharCode(s[i])
    IN \/ /\ u >= 55296 /\ u <= 56319
          /\ (i = Len(s) \/ CharCode(s[i + 1]) < 56320 \/ CharCode(s[i + 1]) > 57343)
       \/ /\ u >= 56320 /\ u <= 57343
          /\ (i = 1 \/ CharCode(s[i - 1]) < 55296 \/ CharCode(s[i - 1]) > 56319)

\* the plaintexts of the model with such a surrogate
IllFormed == {p \in Plaintexts : UnpairedSurrogate(p)}

\* encryptPayload returned, and what it returned passes the shape check
EncryptedWellShaped ==
  /\ unit.enc.ok
  /\ unit.enc.value # <<>>
  /\ AllHex(unit.enc.value)
  /\ Len(unit.enc.value) % 32 = 0

\* decryptPayload was just called on what the last encryptPayload returned
RoundTripped ==
  unit.at = "called" /\ unit.enc.ok /\ unit.cipherHex = unit.enc.value

\* C11 as stated: for every valid context and every plaintext string, the
\* empty one included, encryptPayload returns a hex string that passes the
\* shape check of decryptPayload, and decrypting it gives the plaintext back.
C11_RoundTrip_Stated ==
  /\ unit.at = "encrypted" => EncryptedWellShaped
  /\ RoundTripped => unit.out.ok /\ unit.out.value = unit.plaintext

\* C11: for every valid context and every plaintext string in which every
\* surrogate is part of a pair, the empty string included, encryptPayload
\* returns a hex string that passes the shape check of decryptPayload, and
\* decrypting it gives the plaintext back; for a string with a surrogate
\* outside a pair encryptPayload throws.
C11_RoundTrip ==
  /\ unit.at = "encrypted" =>
       IF unit.plaintext \in IllFormed
       THEN ~unit.enc.ok /\ unit.enc.error = ERR_ENCRYPT
       ELSE EncryptedWellShaped
  /\ RoundTripped => unit.out.ok /\ unit.out.value = unit.plaintext

\* C11 happens: a text of exactly one block came back from two blocks of
\* ciphertext
C11_Witness ==
  /\ RoundTripped
  /\ unit.plaintext = Rep(<<"x">>, 16)
  /\ Len(unit.cipherHex) = 64
  /\ unit.out.value = unit.plaintext

\* C12: encryptPayload, decryptPayload and hashPayload leave the key and the
\* IV of the instance as the constructor set them, and a decryptPayload call
\* given the ciphertext of the decryptPayload call before it, whatever
\* encryptPayload and hashPayload calls came between, returning or throwing,
\* has the same outcome: the same text or the same error.
C12_NoHiddenState ==
  [][UnitLive =>
       /\ unit'.made = unit.made
       /\ (unit'.at = "called" /\ unit.out # NoOut /\ unit'.cipherHex = unit.cipherHex
            => unit'.out = unit.out /\ unit'.before = unit.out)]_vars

\* C12 happens: after an encryptPayload call that threw and a hashPayload
\* call that returned, a second decryptPayload of the same ciphertext
\* returned the text the first returned
C12_Witness ==
  /\ unit.at = "called"
  /\ unit.before # NoOut
  /\ unit.before = unit.out
  /\ unit.out.ok
  /\ unit.out.value # <<>>
  /\ unit.enc.error = ERR_ENCRYPT
  /\ unit.digest.ok

(***************************************************************************)
(* Properties of the session, continued (Spec)                             *)
(***************************************************************************)
\* the header line of the CSV file read has a socialSecurityNumber column
HasSsnColumn ==
  \E i \in 1..Len(inputFile.header) : inputFile.header[i] = "socialSecurityNumber"

\* C13: a CSV file whose header has no socialSecurityNumber column is
\* rejected before the batch: no row is processed, no outcome and no summary
\* is produced, and no export is offered.
C13_CsvWithoutColumnRejected ==
  flow = "csv" /\ inputFile.exists /\ ~HasSsnColumn =>
    /\ cursor = 0
    /\ results = <<>>
    /\ calls = <<>>
    /\ ~table.shown
    /\ ~summary.printed
    /\ ~exportArg.called

\* the JSON file read is missing, is not JSON, or has a root that is no array
JsonUnfit(f) == ~f.exists \/ (f.readable /\ (~f.parses \/ f.data.t # "array"))

\* nothing of a batch exists: no decryptPayload call, no outcome, no table,
\* no summary, no export
NoBatch ==
  /\ calls = <<>>
  /\ cursor = 0
  /\ results = <<>>
  /\ table = NoTable
  /\ summary = NoSummary
  /\ exportArg = NoExport
  /\ written = "none"

\* C14: a JSON file that does not exist, does not parse, or whose root is no
\* array is rejected before the batch: decryptPayload is never called, no
\* outcome, no summary and no export is produced, and the flow returns to the
\* main menu without raising an error.
C14_JsonUnfitRejected ==
  /\ [](flow = "json" /\ JsonUnfit(inputFile) =>
          NoBatch /\ pc \in {"promptJsonFile", "mainMenu", "startReturned", "exited"})
  /\ [][pc = "promptJsonFile" /\ pc' # "exited" /\ JsonUnfit(inputFile') =>
          /\ pc' = "mainMenu"
          /\ flowEnd' \in {"notFound", "invalidJson", "notArray"}
          /\ UNCHANGED errorVars]_vars

\* C14 happens: a JSON file whose root is an object was read and the main
\* menu is back, with no error raised
C14_Witness ==
  /\ flow = "json"
  /\ pc = "mainMenu"
  /\ inputFile.exists /\ inputFile.parses /\ inputFile.data.t = "object"
  /\ flowEnd = "notArray"
  /\ NoBatch
  /\ lastError = <<>>
  /\ ~exitPending

\* the placeholders an outcome shows for an identifier it cannot show
IdPlaceholders == {Str(chalk_gray(TXT_NA)), Str(chalk_gray(TXT_INVALID_ID))}

\* C15: the id of every outcome of an import is the inner identifier when
\* the _id of the record is an object that wraps one ($oid), the string
\* itself when _id is a plain string, and a fixed placeholder when _id is
\* absent or of another shape; it is always a string, and resolving it
\* never fails the record or the batch.
C15_IdResolution ==
  InImport =>
    /\ lastError # ERR_NULL_ID
    /\ \A i \in 1..Len(results) :
         LET raw == Get(records[i], "_id")
             id == results[i]._id
         IN /\ TypeOf(id) = "string"
            /\ IF TypeOf(raw) = "object" /\ Get(raw, "$oid") # Undefined
               THEN id = Get(raw, "$oid")
               ELSE IF TypeOf(raw) = "string" THEN id = raw
               ELSE id \in IdPlaceholders

\* the i-th entry of the manual flow was never processed by a decrypt action
Unprocessed(i) == keyPairs[i].Decrypted = chalk_yellow(TXT_NOT_DECRYPTED)

\* C16: in the manual flow the records of a batch are discarded once its
\* decrypt action has completed: when a further record is asked for, the
\* records held were all entered after the last decrypt action, and a
\* decrypt action processes and counts only such records.
C16_RecordsPerBatch ==
  flow = "manual" =>
    /\ pc \in {"promptEncryptedKey", "postAddActionMenu"} =>
         \A i \in 1..Len(keyPairs) : Unprocessed(i)
    /\ pc = "manualLoop" =>
         \A i \in (cursor + 1)..Len(keyPairs) : Unprocessed(i)

\* C17: the cipher instance of the session is assigned once, from the
\* credentials given at start-up, before the first menu action; afterwards
\* it is neither assigned again nor changed, so every flow is given the same
\* instance, and decryptPayload is never called before it was made.
C17_OneContext ==
  /\ [](/\ (pc = "mainMenu" \/ flow # "none" \/ calls # <<>>) => encdec # NoCtx
        /\ encdec # NoCtx => encdec = EncDec(credentials.key, credentials.iv).this)
  /\ [][encdec' # encdec =>
          /\ pc = "newEncDec"
          /\ encdec = NoCtx
          /\ flow = "none"
          /\ pc' = "mainMenu"]_vars

\* C17 happens: a CSV batch called decryptPayload, and decrypted a record,
\* with the instance made at start-up
C17_Witness ==
  /\ flow = "csv"
  /\ calls # <<>>
  /\ success >= 1
  /\ encdec # NoCtx
  /\ encdec = EncDec(credentials.key, credentials.iv).this

\* C18: once handleUnexpectedError was called with an error that is no
\* interrupt, no menu prompt, batch or export runs any more: until the
\* process exits with code 1, control is at no prompt and in no loop; an
\* interrupt exits at once with code 0.
C18_ErrorTerminates ==
  /\ exitPending => pc \in {"startReturned", "exited"}
  /\ exitPending /\ pc = "exited" => exitCode \in {0, 1}
  /\ ~IsInterrupt(Err(lastError))

\* C19: no flow calls exportResultsToFile with an empty list, so its CSV
\* branch always finds a first row to take the header from; and Cancel at
\* its prompt writes no file.
C19_ExportNeverEmpty ==
  /\ exportArg.called => Len(exportArg.data) >= 1
  /\ pc = "export" => exportArg.called /\ exportArg.format = ""
  /\ lastError # ERR_NO_HEADERS
  /\ exportArg.format = "Cancel" => written = "none"
  /\ exportArg.format = "JSON" => written \in {"json", "none"}
  /\ exportArg.format = "CSV" => written \in {"csv", "none"}

\* C19 happens: the one outcome of a CSV batch was offered for export,
\* Cancel was chosen, and the main menu is back with no file written
C19_Witness ==
  /\ flow = "csv"
  /\ pc = "mainMenu"
  /\ exportArg.called
  /\ Len(exportArg.data) = 1
  /\ exportArg.format = "Cancel"
  /\ written = "none"

(***************************************************************************)
(* Properties of the spinner (SpecSpinner)                                 *)
(***************************************************************************)
\* the number of lines the given functions printed
PrintedBy(fs) == Cardinality({i \in 1..Len(api.obj.log) : api.obj.log[i].by \in fs})

\* C20: over any sequence of start, succeed, fail and stop calls on one
\* spinner the initial message is printed at most once and at most one
\* closing line, of success or of failure, is printed; once the spinner
\* has ended, by succeed, fail or stop, no later call prints anything, and
\* the ended flag never goes back.
C20_SpinnerLifecycle ==
  /\ [](PrintedBy({"start"}) <= 1 /\ PrintedBy({"succeed", "fail"}) <= 1)
  /\ [][api.made /\ api.obj.ended =>
          api'.obj.ended /\ api'.obj.log = api.obj.log]_vars

\* C20 happens: start printed the text, fail printed its line, and two
\* later calls, one of them start or succeed, printed nothing
C20_Witness ==
  /\ api.made
  /\ api.n = 4
  /\ api.obj.ended
  /\ Len(api.obj.log) = 2
  /\ api.obj.log[1] = [by |-> "start", line |-> <<"W", "o", "r", "k">>]
  /\ api.obj.log[2].by = "fail"
====
